---- MODULE Spec2Model ----
(***************************************************************************)
(* SAJC semantic columnar compressor: a model of the compress /            *)
(* decompress pipeline (SemanticCompressor), of the nullable wrapper, of   *)
(* the field codecs and of the varint utilities, at byte level.            *)
(*                                                                         *)
(* Conventions.                                                            *)
(*  - A Buffer is a sequence of bytes (0..255).  JavaScript offsets are    *)
(*    0-based; buffer[offset] of the source is buf[offset + 1] here.       *)
(*  - A JavaScript value is a record [k, v]: k is the kind ("missing",     *)
(*    "null", "bool", "num", "str", "arr", "obj") and v the payload.       *)
(*    Strings are sequences of ASCII codes (UTF-8 bytes = characters),     *)
(*    objects are sequences of <<key, value>> pairs in insertion order     *)
(*    (JSON.stringify and Object.keys observe that order), numbers are     *)
(*    integers.                                                            *)
(*  - An operation that can throw returns [ok |-> FALSE, err |-> msg];     *)
(*    otherwise [ok |-> TRUE, ...].                                        *)
(*  - Integers wider than 31 bits (BigInt, uint32) are two's complement    *)
(*    bit vectors of BigW bits, least significant bit first ("wide").      *)
(***************************************************************************)
EXTENDS Integers, Sequences, FiniteSets, TLC

VARIABLES pc, input, buffer, output

vars == <<pc, input, buffer, output>>

(***************************************************************************)
(* Bounds of the model.                                                    *)
(***************************************************************************)
\* width of the bit vectors that stand for BigInt / double-held integers
BigW == 72

(***************************************************************************)
(* Generic sequence helpers.                                               *)
(***************************************************************************)
\* the concatenation of the sequences of ss, by halves
RECURSIVE Flat(_)
Flat(ss) ==
    IF Len(ss) = 0 THEN <<>>
    ELSE IF Len(ss) = 1 THEN ss[1]
    ELSE Flat(SubSeq(ss, 1, Len(ss) \div 2)) \o Flat(SubSeq(ss, Len(ss) \div 2 + 1, Len(ss)))

RECURSIVE SumSeq(_)
SumSeq(s) == IF s = <<>> THEN 0 ELSE Head(s) + SumSeq(Tail(s))

Range(s) == {s[i] : i \in 1..Len(s)}

\* buffer.slice(from, to) with 0-based, end-exclusive, clamped bounds
Slice(buf, from, to) ==
    LET t == IF to > Len(buf) THEN Len(buf) ELSE to
    IN IF from >= t THEN <<>> ELSE SubSeq(buf, from + 1, t)

CeilDiv(n, d) == (n + d - 1) \div d

\* const r = e; body, written With([r \in {e} |-> body]): the value of the
\* body with r bound to the one element of the domain of f
With(f) == CHOOSE y \in {g[CHOOSE a \in DOMAIN g : TRUE] : g \in {f}} : TRUE

Throw(msg) == [ok |-> FALSE, err |-> msg]

\* the exception that ends a loop whose iterations gave the results `done`:
\* the one of the first iteration that threw
FirstThrown(done) ==
    done[CHOOSE i \in DOMAIN done : ~done[i].ok /\ \A j \in 1..(i - 1) : done[j].ok]

(***************************************************************************)
(* Wide integers: two's complement, BigW bits, LSB first.                  *)
(***************************************************************************)
\* the w low bits of a natural number below 2^31
NatBits(n, w) == [i \in 1..w |-> IF i <= 31 THEN (n \div 2 ^ (i - 1)) % 2 ELSE 0]

WNot(a) == [i \in 1..Len(a) |-> 1 - a[i]]
WXor(a, b) == [i \in 1..Len(a) |-> (a[i] + b[i]) % 2]
WOr(a, b) == [i \in 1..Len(a) |-> IF a[i] + b[i] > 0 THEN 1 ELSE 0]
WIsZero(a) == \A i \in 1..Len(a) : a[i] = 0
WIsNeg(a) == a[Len(a)] = 1
\* a << k (bits shifted out at the top are lost: exact below 2^(BigW-k-1))
WShl(a, k) == [i \in 1..Len(a) |-> IF i - k >= 1 THEN a[i - k] ELSE 0]
\* a >> k, arithmetic (BigInt >>, sign-propagating)
WSar(a, k) == [i \in 1..Len(a) |-> IF i + k <= Len(a) THEN a[i + k] ELSE a[Len(a)]]
\* a >>> k on a zero-extended value
WShr(a, k) == [i \in 1..Len(a) |-> IF i + k <= Len(a) THEN a[i + k] ELSE 0]
\* the low 7 bits as a number: x & 0x7f
WLow7(a) == a[1] + 2 * a[2] + 4 * a[3] + 8 * a[4] + 16 * a[5] + 32 * a[6] + 64 * a[7]
\* ToInt32: the low 32 bits, sign-extended from bit 31
ToInt32(a) == [i \in 1..Len(a) |-> IF i <= 32 THEN a[i] ELSE a[32]]
\* ToUint32: the low 32 bits, zero-extended
ToUint32(a) == [i \in 1..Len(a) |-> IF i <= 32 THEN a[i] ELSE 0]

\* a small integer as a wide integer, and back (|n| < 2^31)
IntToWide(n) == IF n >= 0 THEN NatBits(n, BigW) ELSE WNot(NatBits(-n - 1, BigW))

\* reads a[1..Len] as a natural number, most significant bit last
RECURSIVE BitsVal(_)
BitsVal(a) == IF a = <<>> THEN 0 ELSE Head(a) + 2 * BitsVal(Tail(a))
\* the highest set bit + 1 (0 for zero): bits above it are skipped so that
\* small values never overflow
TopBit(a, i) ==
    LET set == {j \in 1..i : a[j] = 1}
    IN IF set = {} THEN 0 ELSE CHOOSE j \in set : \A k \in set : k <= j
WideToInt(a) ==
    IF WIsNeg(a)
    THEN LET m == WNot(a) IN -BitsVal(SubSeq(m, 1, TopBit(m, Len(m)))) - 1
    ELSE BitsVal(SubSeq(a, 1, TopBit(a, Len(a))))

\* bit i of z, zero beyond its width
BitAt(z, i) == IF i <= Len(z) THEN z[i] ELSE 0
\* byte k of z
ByteAt(z, k) ==
    BitAt(z, 8 * k - 7) + 2 * BitAt(z, 8 * k - 6) + 4 * BitAt(z, 8 * k - 5)
        + 8 * BitAt(z, 8 * k - 4) + 16 * BitAt(z, 8 * k - 3) + 32 * BitAt(z, 8 * k - 2)
        + 64 * BitAt(z, 8 * k - 1) + 128 * BitAt(z, 8 * k)
\* the sums of the k-th bytes of x and y
ByteSums(x, y) == [k \in 1..CeilDiv(Len(x), 8) |-> ByteAt(x, k) + ByteAt(y, k)] \o <<>>
\* byte k takes a carry iff a lower byte j overflows (s[j] >= 256) and
\* every byte between them passes a carry on (s[m] = 255)
ByteCarries(s) ==
    [k \in 1..Len(s) |->
        IF \E j \in 1..(k - 1) : s[j] >= 256 /\ \A m \in (j + 1)..(k - 1) : s[m] = 255
        THEN 1 ELSE 0] \o <<>>
\* the n low bits of the byte sums s with the carries c
SumBits(s, c, n) ==
    [i \in 1..n |->
        ((s[((i - 1) \div 8) + 1] + c[((i - 1) \div 8) + 1]) \div 2 ^ ((i - 1) % 8)) % 2] \o <<>>
CarriedSum(s, n) == SumBits(s, ByteCarries(s), n)

\* a + b on wide integers, byte by byte
WAdd(a, b) == CarriedSum(ByteSums(a \o <<>>, b \o <<>>), Len(a))
\* -a
WNeg(a) == WAdd(WNot(a), NatBits(1, Len(a)))
\* a - b
WSub(a, b) == WAdd(a, WNeg(b))

\* the magnitude m, whose top bit is k + 53 with k > 0, rounded to its 53
\* leading bits: up iff the bits dropped are more than half of bit k + 1, or
\* exactly half with bit k + 1 set
RoundTo53(m, k) ==
    IF m[k] = 1 /\ (m[k + 1] = 1 \/ \E i \in 1..(k - 1) : m[i] = 1)
    THEN WAdd([i \in 1..Len(m) |-> IF i <= k THEN 0 ELSE m[i]],
              [i \in 1..Len(m) |-> IF i = k + 1 THEN 1 ELSE 0])
    ELSE [i \in 1..Len(m) |-> IF i <= k THEN 0 ELSE m[i]] \o <<>>
RoundMagnitude(m) ==
    IF TopBit(m, Len(m)) <= 53 THEN m ELSE RoundTo53(m, TopBit(m, Len(m)) - 53)

\* Number(n) for a BigInt n, and the rounding of a sum of two numbers: the
\* nearest double, which keeps 53 significant bits, ties to the even one
NumberOfBigInt(a) ==
    IF WIsNeg(a) THEN WNeg(RoundMagnitude(WNeg(a))) ELSE RoundMagnitude(a \o <<>>)

(***************************************************************************)
(* Varint (unsigned LEB128 on 32-bit numbers, ZigZag LEB128 on BigInt).    *)
(***************************************************************************)
\* the do/while loop of Varint.encode: val is the running value
RECURSIVE VarintEncodeLoop(_)
VarintEncodeLoop(val) ==
    LET byte == WLow7(ToInt32(val))
        shifted == WShr(ToUint32(val), 7)
    IN IF ~WIsZero(shifted)
       THEN <<byte + 128>> \o VarintEncodeLoop(shifted)
       ELSE <<byte>>

\* Varint.encode(value): value is a wide integer
Varint_encode(value) ==
    IF WIsNeg(value)
    THEN Throw("Varint.encode only supports unsigned integers")
    ELSE [ok |-> TRUE, bytes |-> VarintEncodeLoop(value)]

\* (byte & 0x7f) << shift on int32: the shift count is taken modulo 32
Int32Shl7(byte, shift) ==
    LET b == NatBits(byte % 128, 32)
        k == shift % 32
    IN [i \in 1..32 |-> IF i - k >= 1 THEN b[i - k] ELSE 0]

\* the while(true) loop of Varint.decode: value is an int32 (32 bits)
RECURSIVE VarintDecodeLoop(_, _, _, _, _)
VarintDecodeLoop(buf, offset, value, shift, bytesRead) ==
    IF offset + bytesRead >= Len(buf)
    THEN Throw("Varint decode out of bounds")
    ELSE LET byte == buf[offset + bytesRead + 1]
             nv == WOr(value, Int32Shl7(byte, shift))
         IN IF byte < 128
            THEN [ok |-> TRUE, value32 |-> nv, bytesRead |-> bytesRead + 1]
            ELSE IF shift + 7 > 35
                 THEN Throw("Varint too long for 32-bit integer")
                 ELSE VarintDecodeLoop(buf, offset, nv, shift + 7, bytesRead + 1)

\* the same bits read as a signed int32 (what the value is without >>> 0)
SignedInt32(v32) == [i \in 1..BigW |-> IF i <= 32 THEN v32[i] ELSE v32[32]]

\* value >>> 0: the int32 read as unsigned
UnsignedShift0(v32) == [i \in 1..BigW |-> IF i <= 32 THEN v32[i] ELSE 0]

\* Varint.decode(buffer, offset) -> {value, bytesRead}; value is wide
Varint_decode(buf, offset) ==
    LET r == VarintDecodeLoop(buf, offset, NatBits(0, 32), 0, 0)
    IN IF ~r.ok THEN r
       ELSE [ok |-> TRUE, value |-> UnsignedShift0(r.value32), bytesRead |-> r.bytesRead]

\* the do/while loop of Varint.encodeBigInt
RECURSIVE BigIntEncodeLoop(_)
BigIntEncodeLoop(zigzag) ==
    LET byte == WLow7(zigzag)
        nz == WSar(zigzag, 7)
    IN IF ~WIsZero(nz)
       THEN <<byte + 128>> \o BigIntEncodeLoop(nz)
       ELSE <<byte>>

\* the value itself, without the ZigZag step
NoZigZag(value) == value

\* ZigZag: (n << 1) ^ (n >> 63)
ZigZag(value) == WXor(WShl(value, 1), WSar(value, 63))

\* Varint.encodeBigInt(value)
Varint_encodeBigInt(value) == BigIntEncodeLoop(ZigZag(value))

\* the while(true) loop of Varint.decodeBigInt (no cap on the byte count)
RECURSIVE BigIntDecodeLoop(_, _, _, _, _)
BigIntDecodeLoop(buf, offset, zigzag, shift, bytesRead) ==
    IF offset + bytesRead >= Len(buf)
    THEN Throw("Varint decode out of bounds")
    ELSE LET byte == buf[offset + bytesRead + 1]
             nz == WOr(zigzag, WShl(NatBits(byte % 128, BigW), shift))
         IN IF byte < 128
            THEN [ok |-> TRUE, zigzag |-> nz, bytesRead |-> bytesRead + 1]
            ELSE BigIntDecodeLoop(buf, offset, nz, shift + 7, bytesRead + 1)

\* ZigZag decoding: (n >> 1) ^ -(n & 1); -(n & 1) is all ones when the low
\* bit is set
UnZigZag(zigzag) ==
    WXor(WSar(zigzag, 1), [i \in 1..Len(zigzag) |-> zigzag[1]])

\* Varint.decodeBigInt(buffer, offset) -> {value, bytesRead}
Varint_decodeBigInt(buf, offset) ==
    LET r == BigIntDecodeLoop(buf, offset, [i \in 1..BigW |-> 0], 0, 0)
    IN IF ~r.ok THEN r
       ELSE [ok |-> TRUE, value |-> UnZigZag(r.zigzag), bytesRead |-> r.bytesRead]

(***************************************************************************)
(* JavaScript values.                                                      *)
(***************************************************************************)
\* MISSING = Symbol.for("SAJC_MISSING")
Missing == [k |-> "missing", v |-> <<>>]
Undef == [k |-> "undefined", v |-> <<>>]
Null == [k |-> "null", v |-> <<>>]
Bool(b) == [k |-> "bool", v |-> b]
Num(n) == [k |-> "num", v |-> n]
\* a non-integer number m / 10^s (only produced by decimal-mode decoding)
Dec(m, s) == [k |-> "dec", v |-> <<m, s>>]
\* a double known only by its 8 little-endian bytes (float-mode decoding)
F64(bytes) == [k |-> "f64", v |-> bytes]
Str(s) == [k |-> "str", v |-> s]
Arr(a) == [k |-> "arr", v |-> a]
Obj(o) == [k |-> "obj", v |-> o]

\* typeof v
TypeOf(x) ==
    CASE x.k = "str" -> "string"
      [] x.k \in {"num", "dec", "f64"} -> "number"
      [] x.k = "bool" -> "boolean"
      [] x.k = "missing" -> "symbol"
      [] x.k = "undefined" -> "undefined"
      [] OTHER -> "object"

\* the truthiness of a value: if (v)
Truthy(x) ==
    CASE x.k \in {"null", "undefined"} -> FALSE
      [] x.k = "bool" -> x.v
      [] x.k = "num" -> x.v # 0
      [] x.k = "str" -> x.v # <<>>
      [] OTHER -> TRUE

\* Object.keys(o), in insertion order
ObjKeys(o) == [i \in 1..Len(o.v) |-> o.v[i][1]]
\* key in o
ObjHas(o, key) == \E i \in 1..Len(o.v) : o.v[i][1] = key
\* o[key] (undefined when absent)
ObjGet(o, key) ==
    IF ObjHas(o, key)
    THEN o.v[CHOOSE i \in 1..Len(o.v) : o.v[i][1] = key][2]
    ELSE Undef
\* o[key] = val: an existing key keeps its place, a new one goes last
ObjSet(o, key, val) ==
    IF ObjHas(o, key)
    THEN Obj([i \in 1..Len(o.v) |-> IF o.v[i][1] = key THEN <<key, val>> ELSE o.v[i]])
    ELSE Obj(Append(o.v, <<key, val>>))

\* the characters of the decimal text of a natural number
RECURSIVE Digits(_)
Digits(n) == IF n < 10 THEN <<48 + n>> ELSE Digits(n \div 10) \o <<48 + (n % 10)>>

\* a string between quotes, with the quote and the backslash escaped
JsonChars(s) ==
    Flat([i \in 1..Len(s) |-> IF s[i] \in {34, 92} THEN <<92, s[i]>> ELSE <<s[i]>>])

\* JSON.stringify(x).  Inside an array a symbol or undefined prints as
\* null; inside an object such a property is left out.  Keys print in
\* insertion order.
RECURSIVE JsonStringify(_)
RECURSIVE JsonElems(_)
RECURSIVE JsonProps(_, _)
JsonStringify(x) ==
    CASE x.k \in {"null", "missing", "undefined"} -> <<110, 117, 108, 108>>
      [] x.k = "bool" -> IF x.v THEN <<116, 114, 117, 101>> ELSE <<102, 97, 108, 115, 101>>
      [] x.k = "num" -> IF x.v < 0 THEN <<45>> \o Digits(-x.v) ELSE Digits(x.v)
      [] x.k = "dec" -> (IF x.v[1] < 0 THEN <<45>> \o Digits(-x.v[1]) ELSE Digits(x.v[1]))
                           \o <<101, 45>> \o Digits(x.v[2])
      [] x.k = "f64" -> <<102>> \o Flat([i \in 1..Len(x.v) |-> Digits(x.v[i]) \o <<95>>])
      [] x.k = "str" -> <<34>> \o JsonChars(x.v) \o <<34>>
      [] x.k = "arr" -> <<91>> \o JsonElems(x.v) \o <<93>>
      [] OTHER -> <<123>> \o JsonProps(x.v, TRUE) \o <<125>>
JsonElems(a) ==
    IF a = <<>> THEN <<>>
    ELSE JsonStringify(Head(a)) \o (IF Len(a) > 1 THEN <<44>> ELSE <<>>) \o JsonElems(Tail(a))
JsonProps(ps, first) ==
    IF ps = <<>> THEN <<>>
    ELSE IF Head(ps)[2].k \in {"missing", "undefined"}
         THEN JsonProps(Tail(ps), first)
         ELSE (IF first THEN <<>> ELSE <<44>>)
              \o <<34>> \o JsonChars(Head(ps)[1]) \o <<34, 58>> \o JsonStringify(Head(ps)[2])
              \o JsonProps(Tail(ps), FALSE)

\* deepEqualPreservingAbsence(original, decompressed): structural equality,
\* key order irrelevant, a missing key and a null value distinct
RECURSIVE StructEq(_, _)
StructEq(x, y) ==
    IF x.k # y.k THEN FALSE
    ELSE IF x.k = "arr"
         THEN /\ Len(x.v) = Len(y.v)
              /\ \A i \in 1..Len(x.v) : StructEq(x.v[i], y.v[i])
    ELSE IF x.k = "obj"
         THEN /\ Len(x.v) = Len(y.v)
              /\ \A i \in 1..Len(x.v) : ObjHas(y, x.v[i][1])
              /\ \A i \in 1..Len(y.v) : ObjHas(x, y.v[i][1])
              /\ \A i \in 1..Len(x.v) : StructEq(x.v[i][2], ObjGet(y, x.v[i][1]))
    ELSE x = y

\* two batches (or columns) are structurally equal
SeqStructEq(xs, ys) ==
    /\ Len(xs) = Len(ys)
    /\ \A i \in 1..Len(xs) : StructEq(xs[i], ys[i])

(***************************************************************************)
(* ObjectFlattener.                                                        *)
(***************************************************************************)
\* isPlainObject(value)
isPlainObject(x) == x.k = "obj"

\* flattenRecursive(obj, parentPath, result) -> result; the for loop over
\* Object.keys(obj) runs from property i on;
\* path = parentPath ? `${parentPath}.${key}` : key   (46 is '.')
RECURSIVE flattenRecursive(_, _, _, _)
flattenRecursive(obj, i, parentPath, result) ==
    IF i > Len(obj.v) THEN result
    ELSE LET key == obj.v[i][1]
             value == obj.v[i][2]
             path == IF parentPath # <<>> THEN parentPath \o <<46>> \o key ELSE key
             r1 == IF isPlainObject(value)
                   THEN flattenRecursive(value, 1, path, result)
                   ELSE ObjSet(result, path, value)
         IN flattenRecursive(obj, i + 1, parentPath, r1)

\* flatten(record)
flatten(record) == flattenRecursive(record, 1, <<>>, Obj(<<>>))

\* fullPath.split(".")
SplitDots(s) ==
    LET dots == SelectSeq([i \in 1..Len(s) |-> i], LAMBDA i : s[i] = 46)
        cuts == <<0>> \o dots \o <<Len(s) + 1>>
    IN [j \in 1..(Len(cuts) - 1) |-> SubSeq(s, cuts[j] + 1, cuts[j + 1] - 1)]

\* the inner for loop of unflatten: store value under parts[i..] inside
\* current.  `if (!current[part]) current[part] = {}` replaces any falsy
\* value; stepping into a truthy primitive and assigning a property on it
\* throws in strict mode; a property set on an array is not an element and
\* is invisible to structural equality and to JSON.
RECURSIVE SetPath(_, _, _, _)
SetPath(current, parts, i, value) ==
    LET part == parts[i]
    IN IF i = Len(parts)
       THEN [ok |-> TRUE, val |-> ObjSet(current, part, value)]
       ELSE LET old == ObjGet(current, part)
                child == IF ~Truthy(old) THEN Obj(<<>>) ELSE old
            IN IF child.k = "obj"
               THEN LET r == SetPath(child, parts, i + 1, value)
                    IN IF r.ok THEN [ok |-> TRUE, val |-> ObjSet(current, part, r.val)]
                       ELSE r
               ELSE IF child.k = "arr"
                    THEN [ok |-> TRUE, val |-> current]
                    ELSE Throw("TypeError: cannot create property on a primitive")

\* unflatten(flat): the loop over Object.keys(flat) from property i on
RECURSIVE unflattenLoop(_, _, _)
unflattenLoop(flat, i, result) ==
    IF i > Len(flat.v) THEN [ok |-> TRUE, val |-> result]
    ELSE LET fullPath == flat.v[i][1]
             value == flat.v[i][2]
         IN IF value.k \in {"missing", "undefined"}
            THEN unflattenLoop(flat, i + 1, result)
            ELSE LET r == SetPath(result, SplitDots(fullPath), 1, value)
                 IN IF r.ok THEN unflattenLoop(flat, i + 1, r.val) ELSE r

unflatten(flat) == unflattenLoop(flat, 1, Obj(<<>>))

(***************************************************************************)
(* ColumnBuilder.  Columns are an object: name -> array of values, in      *)
(* the order in which the names are first seen.                            *)
(***************************************************************************)
\* ColumnBuilder.build(records): the outer loop over the records from i on,
\* the inner loop over the keys of one record from property j on
RECURSIVE buildLoop(_, _, _, _)
buildLoop(records, i, j, columns) ==
    IF i > Len(records) THEN columns
    ELSE IF j > Len(records[i].v) THEN buildLoop(records, i + 1, 1, columns)
    ELSE LET key == records[i].v[j][1]
             col == IF ObjHas(columns, key) THEN ObjGet(columns, key) ELSE Arr(<<>>)
         IN buildLoop(records, i, j + 1,
                      ObjSet(columns, key, Arr(Append(col.v, records[i].v[j][2]))))

ColumnBuilder_build(records) == buildLoop(records, 1, 1, Obj(<<>>))

(***************************************************************************)
(* FieldType and FieldProfiler.                                            *)
(***************************************************************************)
FT_STRING == 0
FT_NUMBER == 1
FT_BOOLEAN == 2
FT_TIMESTAMP == 3
FT_UUID == 4
FT_ENUM == 5
FT_OBJECT == 6
FT_ARRAY == 7
FT_ARRAY_PRIMITIVE == 8

IsHexChar(c) == c \in (48..57) \cup (97..102) \cup (65..70)

\* /^[0-9a-f]{8}-[0-9a-f]{4}-[1-5][0-9a-f]{3}-[89ab][0-9a-f]{3}-[0-9a-f]{12}$/i
MatchesUuidRegex(s) ==
    /\ Len(s) = 36
    /\ \A i \in {9, 14, 19, 24} : s[i] = 45
    /\ s[15] \in 49..53
    /\ s[20] \in {56, 57, 97, 98, 65, 66}
    /\ \A i \in (1..36) \ {9, 14, 15, 19, 20, 24} : IsHexChar(s[i])

\* !isNaN(Date.parse(s)) for the strings of the model: the ISO-8601 UTC
\* form YYYY-MM-DDTHH:mm:ss.sssZ parses, and so does the form with a sign and
\* a year of six digits; a string without a digit does not.
\* (Any other string with digits is left to the engine's legacy parser and
\* is not part of the model's inputs.)
DateParses(s) ==
    LET Iso(u) ==
            /\ Len(u) = 24
            /\ \A i \in {5, 8} : u[i] = 45
            /\ u[11] = 84
            /\ \A i \in {14, 17} : u[i] = 58
            /\ u[20] = 46
            /\ u[24] = 90
            /\ \A i \in (1..23) \ {5, 8, 11, 14, 17, 20} : u[i] \in 48..57
    IN \/ Iso(s)
       \/ /\ Len(s) = 27
          /\ s[1] \in {43, 45}
          /\ \A i \in {2, 3} : s[i] \in 48..57
          /\ Iso(SubSeq(s, 4, 27))

isUUID(values) ==
    \A i \in 1..Len(values) : values[i].k = "str" /\ MatchesUuidRegex(values[i].v)
isTimestamp(values) ==
    \A i \in 1..Len(values) : values[i].k = "str" /\ DateParses(values[i].v)
isEnum(values) ==
    /\ \A i \in 1..Len(values) : values[i].k = "str"
    /\ Cardinality(Range(values)) <= 8
isBoolean(values) == \A i \in 1..Len(values) : values[i].k = "bool"
isNumber(values) == \A i \in 1..Len(values) : TypeOf(values[i]) = "number"
isArrayOfObjects(values) ==
    \A i \in 1..Len(values) :
        /\ values[i].k = "arr"
        /\ \A j \in 1..Len(values[i].v) : values[i].v[j].k = "obj"
isArrayOfPrimitives(values) ==
    \A i \in 1..Len(values) :
        /\ values[i].k = "arr"
        /\ \A j \in 1..Len(values[i].v) : values[i].v[j].k \notin {"arr", "obj"}

\* the profiler with the ENUM rule tried before the UUID and TIMESTAMP rules
detectTypeEnumFirst(values) ==
    LET nonNullValues == SelectSeq(values, LAMBDA x : x.k \notin {"null", "undefined"})
    IN IF nonNullValues = <<>> THEN FT_STRING
       ELSE IF isEnum(nonNullValues) THEN FT_ENUM
       ELSE IF isUUID(nonNullValues) THEN FT_UUID
       ELSE IF isTimestamp(nonNullValues) THEN FT_TIMESTAMP
       ELSE IF isBoolean(nonNullValues) THEN FT_BOOLEAN
       ELSE IF isNumber(nonNullValues) THEN FT_NUMBER
       ELSE IF isArrayOfObjects(values) THEN FT_ARRAY
       ELSE IF isArrayOfPrimitives(values) THEN FT_ARRAY_PRIMITIVE
       ELSE FT_STRING

\* FieldProfiler.detectType(values)
detectType(values) ==
    LET nonNullValues == SelectSeq(values, LAMBDA x : x.k \notin {"null", "undefined"})
    IN IF nonNullValues = <<>> THEN FT_STRING
       ELSE IF isUUID(nonNullValues) THEN FT_UUID
       ELSE IF isTimestamp(nonNullValues) THEN FT_TIMESTAMP
       ELSE IF isEnum(nonNullValues) THEN FT_ENUM
       ELSE IF isBoolean(nonNullValues) THEN FT_BOOLEAN
       ELSE IF isNumber(nonNullValues) THEN FT_NUMBER
       ELSE IF isArrayOfObjects(values) THEN FT_ARRAY
       ELSE IF isArrayOfPrimitives(values) THEN FT_ARRAY_PRIMITIVE
       ELSE FT_STRING

(***************************************************************************)
(* Buffer helpers.                                                         *)
(***************************************************************************)
\* buf.writeUInt32LE(n) on a fresh 4-byte buffer
U32LE(n) == <<n % 256, (n \div 256) % 256, (n \div 65536) % 256, (n \div 16777216) % 256>>
\* buf.writeUInt16LE(n) on a fresh 2-byte buffer
U16LE(n) == <<n % 256, (n \div 256) % 256>>
\* buffer.readUInt32LE(offset), offset + 4 <= length (values below 2^31)
ReadU32LE(buf, offset) ==
    buf[offset + 1] + 256 * buf[offset + 2] + 65536 * buf[offset + 3]
        + 16777216 * buf[offset + 4]
ReadU16LE(buf, offset) == buf[offset + 1] + 256 * buf[offset + 2]

RECURSIVE Pow10(_)
Pow10(s) == IF s = 0 THEN 1 ELSE 10 * Pow10(s - 1)

\* 1 << k for k in 0..7
Bit(k) == CASE k = 0 -> 1 [] k = 1 -> 2 [] k = 2 -> 4 [] k = 3 -> 8
            [] k = 4 -> 16 [] k = 5 -> 32 [] k = 6 -> 64 [] OTHER -> 128
\* byte & (1 << k) is not zero
BitSet(byte, k) == (byte \div Bit(k)) % 2 = 1

\* Varint.encode(n) for a length, a count or an index (never negative)
VarintBytes(n) == Varint_encode(IntToWide(n)).bytes

\* the values of a sequence in order of first occurrence (new Set / Map)
RECURSIVE Unique(_, _)
Unique(values, seen) ==
    IF values = <<>> THEN seen
    ELSE Unique(Tail(values),
                IF \E i \in 1..Len(seen) : seen[i] = Head(values)
                THEN seen ELSE Append(seen, Head(values)))
\* dictMap.get(v): the 0-based index of v in the dictionary
IndexOf(dict, x) == (CHOOSE i \in 1..Len(dict) : dict[i] = x) - 1

(***************************************************************************)
(* NumberCodec.                                                            *)
(***************************************************************************)
\* Math.abs(n * 10^scale - Math.round(n * 10^scale)) < 1e-9 ; null * m is 0
IsFixedPointAt(x, scale) ==
    CASE x.k \in {"num", "null"} -> TRUE
      [] x.k = "dec" -> x.v[2] <= scale
      [] OTHER -> FALSE

\* Math.round(n * 10^scale), for a value that is fixed-point at that scale
ScaledInt(x, scale) ==
    CASE x.k = "num" -> x.v * Pow10(scale)
      [] x.k = "dec" -> x.v[1] * Pow10(scale - x.v[2])
      [] OTHER -> 0

\* NumberCodec.encode(values).  The float fallback is taken only when some
\* value has more than six decimals; the model holds no such number.
NumberCodec_encode(values) ==
    IF values = <<>> THEN [ok |-> TRUE, bytes |-> <<>>]
    ELSE IF \A i \in 1..Len(values) : values[i].k = "num"
    THEN [ok |-> TRUE, bytes |->
            <<1>> \o Flat([i \in 1..Len(values) |->
                             Varint_encodeBigInt(IntToWide(values[i].v))])]
    ELSE LET scales == {s \in 1..6 :
                          \A i \in 1..Len(values) : IsFixedPointAt(values[i], s)}
         IN IF scales # {}
            THEN LET bestScale == CHOOSE s \in scales : \A t \in scales : s <= t
                 IN [ok |-> TRUE, bytes |->
                       <<2, bestScale>> \o Flat([i \in 1..Len(values) |->
                          Varint_encodeBigInt(IntToWide(ScaledInt(values[i], bestScale)))])]
            ELSE Throw("float mode: outside the numbers of the model")

\* Number(value) / divisor
NumberOver(n, scale) ==
    IF scale <= 9 /\ n % Pow10(scale) = 0 THEN Num(n \div Pow10(scale)) ELSE Dec(n, scale)

\* the while loops of integer and decimal mode: scale -1 is integer mode
RECURSIVE NumberDecodeLoop(_, _, _, _)
NumberDecodeLoop(buf, offset, scale, values) ==
    IF offset >= Len(buf) THEN [ok |-> TRUE, values |-> values]
    ELSE LET r == Varint_decodeBigInt(buf, offset)
         IN IF ~r.ok THEN r
            ELSE LET n == WideToInt(r.value)
                     x == IF scale < 0 THEN Num(n) ELSE NumberOver(n, scale)
                 IN NumberDecodeLoop(buf, offset + r.bytesRead, scale, Append(values, x))

\* the for loop of float mode: readDoubleLE throws on a short tail
RECURSIVE FloatDecodeLoop(_, _, _)
FloatDecodeLoop(buf, offset, values) ==
    IF offset >= Len(buf) THEN [ok |-> TRUE, values |-> values]
    ELSE IF offset + 8 > Len(buf) THEN Throw("RangeError: readDoubleLE out of range")
    ELSE FloatDecodeLoop(buf, offset + 8, Append(values, F64(Slice(buf, offset, offset + 8))))

\* NumberCodec.decode(buffer)
NumberCodec_decode(buf) ==
    IF buf = <<>> THEN [ok |-> TRUE, values |-> <<>>]
    ELSE LET mode == buf[1]
         IN IF mode = 1 THEN NumberDecodeLoop(buf, 1, -1, <<>>)
            ELSE IF mode = 2
                 THEN IF Len(buf) < 2 THEN [ok |-> TRUE, values |-> <<>>]
                      ELSE NumberDecodeLoop(buf, 2, buf[2], <<>>)
            ELSE FloatDecodeLoop(buf, 1, <<>>)

(***************************************************************************)
(* BooleanCodec.                                                           *)
(***************************************************************************)
\* bits packed from the high end of each byte: 1 << (7 - i % 8)
PackBitsHighFirst(on) ==
    [j \in 1..CeilDiv(Len(on), 8) |->
        SumSeq([b \in 1..8 |->
                  LET i == 8 * (j - 1) + (b - 1)
                  IN IF i < Len(on) /\ on[i + 1] THEN Bit(8 - b) ELSE 0])]

\* the bytes with bit (i % 8) of byte floor(i / 8) set for every position i
\* (0-based) at which the sequence of booleans `on` holds TRUE: the effect
\* of  buf[Math.floor(i / 8)] |= 1 << i % 8
PackBits(on) ==
    [j \in 1..CeilDiv(Len(on), 8) |->
        SumSeq([b \in 1..8 |->
                  LET i == 8 * (j - 1) + (b - 1)
                  IN IF i < Len(on) /\ on[i + 1] THEN Bit(b - 1) ELSE 0])]

\* BooleanCodec.encode(values)
BooleanCodec_encode(values) ==
    LET count == Len(values)
    IN IF count = 0 THEN [ok |-> TRUE, bytes |-> <<>>]
       ELSE [ok |-> TRUE, bytes |->
               VarintBytes(count) \o PackBits([i \in 1..count |-> Truthy(values[i])])]

\* BooleanCodec.decode(buffer): a byte past the end reads as undefined,
\* and undefined & mask is 0
BooleanCodec_decode(buf) ==
    IF buf = <<>> THEN [ok |-> TRUE, values |-> <<>>]
    ELSE LET r == Varint_decode(buf, 0)
         IN IF ~r.ok THEN r
            ELSE LET count == WideToInt(r.value)
                     offset == r.bytesRead
                 IN [ok |-> TRUE, values |->
                      [n \in 1..count |->
                         LET i == n - 1
                             at == offset + (i \div 8)
                         IN Bool(at < Len(buf) /\ BitSet(buf[at + 1], i % 8))]]

(***************************************************************************)
(* EnumCodec.                                                              *)
(***************************************************************************)
\* the dictionary entries of EnumCodec.encode, from entry i on
RECURSIVE EnumDictParts(_, _)
EnumDictParts(unique, i) ==
    IF i > Len(unique) THEN [ok |-> TRUE, bytes |-> <<>>]
    ELSE LET u == unique[i]
             rest == EnumDictParts(unique, i + 1)
         IN IF u.k = "null"
            THEN IF rest.ok THEN [ok |-> TRUE, bytes |-> <<255>> \o rest.bytes] ELSE rest
            ELSE IF Len(u.v) >= 255
                 THEN Throw("Enum string too long (max 254 bytes)")
                 ELSE IF rest.ok
                      THEN [ok |-> TRUE, bytes |-> <<Len(u.v)>> \o u.v \o rest.bytes]
                      ELSE rest

\* the packing with the first index of each pair in the low nibble
NibblePackLowFirst(indices) ==
    [j \in 1..CeilDiv(Len(indices), 2) |->
        ((indices[2 * j - 1] % 16)
           + (IF 2 * j <= Len(indices) THEN (indices[2 * j] * 16) % 256 ELSE 0)) % 256]

\* packed[floor(i/2)] = val << 4 for even i, |= val for odd i (one byte)
NibblePack(indices) ==
    [j \in 1..CeilDiv(Len(indices), 2) |->
        (((indices[2 * j - 1] * 16) % 256)
           + (IF 2 * j <= Len(indices) THEN indices[2 * j] % 16 ELSE 0)) % 256]

\* EnumCodec.encode(values): values are strings and nulls
EnumCodec_encode(values) ==
    LET count == Len(values)
        prefix == U32LE(count)
    IN IF count = 0 THEN [ok |-> TRUE, bytes |-> prefix]
       ELSE LET unique == Unique(values, <<>>)
                uniqueCount == Len(unique)
                dict == EnumDictParts(unique, 1)
                indices == [i \in 1..count |-> IndexOf(unique, values[i])]
            IN IF ~dict.ok THEN dict
               ELSE IF uniqueCount > 16
                    THEN [ok |-> TRUE, bytes |->
                            prefix \o <<uniqueCount % 256>> \o dict.bytes
                                   \o [i \in 1..count |-> indices[i] % 256]]
                    ELSE [ok |-> TRUE, bytes |->
                            prefix \o <<uniqueCount % 256>> \o dict.bytes
                                   \o NibblePack(indices)]

\* the dictionary loop of EnumCodec.decode
RECURSIVE EnumReadDict(_, _, _, _)
EnumReadDict(buf, offset, left, dictionary) ==
    IF left = 0 THEN [ok |-> TRUE, dictionary |-> dictionary, offset |-> offset]
    ELSE IF offset + 1 > Len(buf) THEN Throw("Truncated dict entry length")
    ELSE LET len == buf[offset + 1]
         IN IF len = 255
            THEN EnumReadDict(buf, offset + 1, left - 1, Append(dictionary, Null))
            ELSE IF offset + 1 + len > Len(buf) THEN Throw("Truncated dict entry")
                 ELSE EnumReadDict(buf, offset + 1 + len, left - 1,
                                   Append(dictionary,
                                          Str(Slice(buf, offset + 1, offset + 1 + len))))

\* the nibble loop of EnumCodec.decode: stops at the first nibble that is
\* no index; returns the values read
RECURSIVE EnumReadNibbles(_, _, _, _, _, _)
EnumReadNibbles(packed, i, count, uniqueCount, dictionary, result) ==
    IF ~(i < 2 * Len(packed) /\ Len(result) < count) THEN result
    ELSE LET byte == packed[(i \div 2) + 1]
             val == IF i % 2 = 0 THEN byte \div 16 ELSE byte % 16
         IN IF val >= uniqueCount THEN result
            ELSE EnumReadNibbles(packed, i + 1, count, uniqueCount, dictionary,
                                 Append(result, dictionary[val + 1]))

\* EnumCodec.decode(buffer)
EnumCodec_decode(buf) ==
    IF Len(buf) < 4 THEN Throw("Enum buffer too short for count prefix")
    ELSE LET count == ReadU32LE(buf, 0)
         IN IF count = 0 THEN [ok |-> TRUE, values |-> <<>>]
            ELSE IF Len(buf) < 5 THEN Throw("Truncated unique count")
            ELSE LET uniqueCount == buf[5]
                     d == EnumReadDict(buf, 5, uniqueCount, <<>>)
                 IN IF ~d.ok THEN d
                    ELSE IF uniqueCount > 16
                    THEN LET indexBuf == Slice(buf, d.offset, Len(buf))
                         IN IF Len(indexBuf) < count THEN Throw("Enum decode underflow")
                            ELSE IF \E i \in 1..count : indexBuf[i] >= uniqueCount
                                 THEN Throw("Invalid dictionary index")
                                 ELSE [ok |-> TRUE, values |->
                                         [i \in 1..count |-> d.dictionary[indexBuf[i] + 1]]]
                    ELSE LET got == EnumReadNibbles(Slice(buf, d.offset, Len(buf)), 0,
                                                    count, uniqueCount, d.dictionary, <<>>)
                         IN IF Len(got) < count THEN Throw("Enum decode underflow")
                            ELSE [ok |-> TRUE, values |-> got]

(***************************************************************************)
(* AdaptiveStringCodec.                                                    *)
(***************************************************************************)
\* Buffer.from(x, "utf8"): the bytes of a string; an array gives one byte
\* per element (numbers modulo 256, true as 1, anything else of the model
\* as 0); a number, a boolean, a symbol or a plain object throws
BufferFrom(x) ==
    CASE x.k = "str" -> [ok |-> TRUE, bytes |-> x.v]
      [] x.k = "arr" -> [ok |-> TRUE, bytes |->
                           [i \in 1..Len(x.v) |->
                              CASE x.v[i].k = "num" -> x.v[i].v % 256
                                [] x.v[i].k = "bool" -> IF x.v[i].v THEN 1 ELSE 0
                                [] OTHER -> 0]]
      [] OTHER -> Throw("TypeError: the first argument must be of type string")

\* the null-aware length-prefixed form of the values from i on: Varint(0),
\* or Varint(len + 1) | bytes
RECURSIVE LenPrefixedAll(_, _)
LenPrefixedAll(xs, i) ==
    IF i > Len(xs) THEN [ok |-> TRUE, bytes |-> <<>>]
    ELSE LET b == BufferFrom(xs[i])
             h == IF xs[i].k = "null" THEN [ok |-> TRUE, bytes |-> VarintBytes(0)]
                  ELSE IF ~b.ok THEN b
                  ELSE [ok |-> TRUE,
                        bytes |-> VarintBytes(Len(b.bytes) + 1) \o b.bytes]
         IN IF ~h.ok THEN h
            ELSE LET rest == LenPrefixedAll(xs, i + 1)
                 IN IF ~rest.ok THEN rest
                    ELSE [ok |-> TRUE, bytes |-> h.bytes \o rest.bytes]

\* the dictionary of step 1: Map keys compare by SameValueZero, so two
\* arrays or two objects are never the same key.  Returns the unique
\* values and, per position, the index of its value.
RECURSIVE BuildDictionary(_, _, _, _)
BuildDictionary(strings, i, uniqueStrings, indices) ==
    IF i > Len(strings) THEN [unique |-> uniqueStrings, indices |-> indices]
    ELSE LET s == strings[i]
             known == {j \in 1..Len(uniqueStrings) :
                          s.k \notin {"arr", "obj"} /\ uniqueStrings[j] = s}
         IN IF known # {}
            THEN BuildDictionary(strings, i + 1, uniqueStrings,
                                 Append(indices, (CHOOSE j \in known : TRUE) - 1))
            ELSE BuildDictionary(strings, i + 1, Append(uniqueStrings, s),
                                 Append(indices, Len(uniqueStrings)))

\* the runs when the run that is open at the end of the indices is not
\* pushed
RECURSIVE RunsWithoutLast(_, _, _, _)
RunsWithoutLast(indices, i, currentIdx, currentRun) ==
    IF i > Len(indices) THEN <<>>
    ELSE IF indices[i] = currentIdx
         THEN RunsWithoutLast(indices, i + 1, currentIdx, currentRun + 1)
         ELSE << <<currentIdx, currentRun>> >> \o RunsWithoutLast(indices, i + 1, indices[i], 1)

\* the runs of equal adjacent indices: <<index, runLength>> pairs
RECURSIVE Runs(_, _, _, _)
Runs(indices, i, currentIdx, currentRun) ==
    IF i > Len(indices) THEN << <<currentIdx, currentRun>> >>
    ELSE IF indices[i] = currentIdx
         THEN Runs(indices, i + 1, currentIdx, currentRun + 1)
         ELSE << <<currentIdx, currentRun>> >> \o Runs(indices, i + 1, indices[i], 1)

\* the heuristic with "at most 70%" in place of "less than 70%"
isDictionaryBetterOrEqual(uniqueStrings, strings) ==
    10 * Len(uniqueStrings) <= 7 * Len(strings)

\* uniqueStrings.length < strings.length * 0.7, taken exactly (10u < 7n):
\* for the lengths of the model the double product is 7n/10 whenever that
\* is an integer
isDictionaryBetter(uniqueStrings, strings) ==
    10 * Len(uniqueStrings) < 7 * Len(strings)

\* AdaptiveStringCodec.encode(values)
AdaptiveStringCodec_encode(values) ==
    IF values = <<>> THEN [ok |-> TRUE, bytes |-> <<>>]
    ELSE LET d == BuildDictionary(values, 1, <<>>, <<>>)
         IN IF ~isDictionaryBetter(d.unique, values)
            THEN LET raw == LenPrefixedAll(values, 1)
                 IN IF ~raw.ok THEN raw ELSE [ok |-> TRUE, bytes |-> <<0>> \o raw.bytes]
            ELSE LET entries == LenPrefixedAll(d.unique, 1)
                     standard == Flat([i \in 1..Len(d.indices) |-> VarintBytes(d.indices[i])])
                     runs == Runs(d.indices, 2, d.indices[1], 1)
                     rle == Flat([i \in 1..Len(runs) |->
                                    VarintBytes(runs[i][1]) \o VarintBytes(runs[i][2])])
                 IN IF ~entries.ok THEN entries
                    ELSE LET dictHeader == VarintBytes(Len(d.unique)) \o entries.bytes
                         IN IF Len(rle) < Len(standard)
                            THEN [ok |-> TRUE, bytes |-> <<2>> \o dictHeader \o rle]
                            ELSE [ok |-> TRUE, bytes |-> <<1>> \o dictHeader \o standard]

\* reads `left` length-prefixed entries (left < 0: until the end of the
\* buffer); the string slice is clamped to the buffer, the offset is not
RECURSIVE ReadLenPrefixed(_, _, _, _)
ReadLenPrefixed(buf, offset, left, values) ==
    IF left = 0 \/ (left < 0 /\ offset >= Len(buf))
    THEN [ok |-> TRUE, values |-> values, offset |-> offset]
    ELSE LET r == Varint_decode(buf, offset)
         IN IF ~r.ok THEN r
            ELSE LET lenPlusOne == WideToInt(r.value)
                     at == offset + r.bytesRead
                     nl == IF left < 0 THEN left ELSE left - 1
                 IN IF lenPlusOne = 0
                    THEN ReadLenPrefixed(buf, at, nl, Append(values, Null))
                    ELSE ReadLenPrefixed(buf, at + lenPlusOne - 1, nl,
                            Append(values, Str(Slice(buf, at, at + lenPlusOne - 1))))

\* the index loops of the dictionary modes (rle: FALSE for mode 0x01);
\* dictionary[index] is undefined when the index is out of range
RECURSIVE ReadIndices(_, _, _, _, _)
ReadIndices(buf, offset, dictionary, rle, values) ==
    IF offset >= Len(buf) THEN [ok |-> TRUE, values |-> values]
    ELSE LET r == Varint_decode(buf, offset)
         IN IF ~r.ok THEN r
            ELSE LET index == WideToInt(r.value)
                     str == IF index < Len(dictionary) THEN dictionary[index + 1]
                            ELSE Undef
                 IN IF ~rle
                    THEN ReadIndices(buf, offset + r.bytesRead, dictionary, rle,
                                     Append(values, str))
                    ELSE LET n == Varint_decode(buf, offset + r.bytesRead)
                         IN IF ~n.ok THEN n
                            ELSE ReadIndices(buf, offset + r.bytesRead + n.bytesRead,
                                    dictionary, rle,
                                    values \o [k \in 1..WideToInt(n.value) |-> str])

\* AdaptiveStringCodec.decode(buffer)
AdaptiveStringCodec_decode(buf) ==
    IF buf = <<>> THEN [ok |-> TRUE, values |-> <<>>]
    ELSE LET mode == buf[1]
         IN IF mode = 0
            THEN LET r == ReadLenPrefixed(buf, 1, -1, <<>>)
                 IN IF ~r.ok THEN r ELSE [ok |-> TRUE, values |-> r.values]
            ELSE IF mode \in {1, 2}
            THEN LET ds == Varint_decode(buf, 1)
                 IN IF ~ds.ok THEN ds
                    ELSE LET d == ReadLenPrefixed(buf, 1 + ds.bytesRead,
                                                  WideToInt(ds.value), <<>>)
                         IN IF ~d.ok THEN d
                            ELSE ReadIndices(buf, d.offset, d.values, mode = 2, <<>>)
            ELSE Throw("Unknown AdaptiveStringCodec mode")

(***************************************************************************)
(* UUIDCodec.                                                              *)
(***************************************************************************)
\* Buffer.from(s, "hex"): whole pairs of hex digits, up to the first pair
\* that is not hexadecimal
HexDecode(s) ==
    LET HexVal(c) == IF c \in 48..57 THEN c - 48
                     ELSE IF c \in 97..102 THEN c - 87 ELSE c - 55
        whole == {k \in 0..(Len(s) \div 2) :
                    \A j \in 1..k : IsHexChar(s[2 * j - 1]) /\ IsHexChar(s[2 * j])}
    IN [j \in 1..(Cardinality(whole) - 1) |-> 16 * HexVal(s[2 * j - 1]) + HexVal(s[2 * j])]

\* buffer.toString("hex"): lower-case digits
HexEncode(bytes) ==
    LET HexChar(n) == IF n < 10 THEN 48 + n ELSE 87 + n
    IN Flat([i \in 1..Len(bytes) |->
               <<HexChar(bytes[i] \div 16), HexChar(bytes[i] % 16)>>])

\* UUIDCodec.encode(values): (v as string).replace(/-/g, "") throws on a
\* value that is no string
UUIDCodec_encode(values) ==
    IF \E i \in 1..Len(values) : values[i].k # "str"
    THEN Throw("TypeError: v.replace is not a function")
    ELSE [ok |-> TRUE, bytes |->
            Flat([i \in 1..Len(values) |->
                    HexDecode(SelectSeq(values[i].v, LAMBDA c : c # 45))])]

\* UUIDCodec.decode(buffer): one value per 16 bytes (the last may be short)
UUIDCodec_decode(buf) ==
    [ok |-> TRUE, values |->
       [n \in 1..CeilDiv(Len(buf), 16) |->
          LET hex == HexEncode(Slice(buf, 16 * (n - 1), 16 * n))
              h(a, b) == Slice(hex, a, b)
          IN Str(h(0, 8) \o <<45>> \o h(8, 12) \o <<45>> \o h(12, 16) \o <<45>>
                 \o h(16, 20) \o <<45>> \o h(20, Len(hex)))]]

(***************************************************************************)
(* TimestampCodec.  A time is a wide integer of milliseconds.  The dates   *)
(* of the model lie in three hours: the first hour of the epoch,           *)
(* 1970-01-01T00:MM:SS.mmmZ, the first hour a Date can hold,               *)
(* -271821-04-20T00:MM:SS.mmmZ, and the last full hour a Date can hold,    *)
(* +275760-09-12T23:MM:SS.mmmZ.                                            *)
(***************************************************************************)
TwoDigits(s, at) == 10 * (s[at] - 48) + (s[at + 1] - 48)

\* "1970-01-01T00:"
EpochHourPrefix == <<49, 57, 55, 48, 45, 48, 49, 45, 48, 49, 84, 48, 48, 58>>

\* 8.64e15 = 30 * 2^48 + 11667650 * 2^24 + 14417920: the largest time value
\* of a Date (100,000,000 days), as a wide integer
MaxTimeValue ==
    [i \in 1..BigW |->
        LET limb == IF i <= 24 THEN 14417920 ELSE IF i <= 48 THEN 11667650 ELSE 30
        IN IF i <= 72 THEN (limb \div 2 ^ ((i - 1) % 24)) % 2 ELSE 0]

\* the hours of the model: the text before the minutes and the time of
\* minute 0; "-271821-04-20T00:" starts at -8.64e15 and "+275760-09-12T23:"
\* one hour before 8.64e15
DateHours ==
    << [prefix |-> EpochHourPrefix, start |-> NatBits(0, BigW)],
       [prefix |-> <<45, 50, 55, 49, 56, 50, 49, 45, 48, 52, 45, 50, 48, 84, 48, 48, 58>>,
        start |-> WNeg(MaxTimeValue)],
       [prefix |-> <<43, 50, 55, 53, 55, 54, 48, 45, 48, 57, 45, 49, 50, 84, 50, 51, 58>>,
        start |-> WSub(MaxTimeValue, NatBits(3600000, BigW))] >>

\* the hours of the model the text s lies in
HoursOfText(s) ==
    {h \in DOMAIN DateHours :
        /\ Len(s) = Len(DateHours[h].prefix) + 10
        /\ SubSeq(s, 1, Len(DateHours[h].prefix)) = DateHours[h].prefix}

\* the time of the text s, whose minutes begin after position at, in the
\* hour that starts at start
TimeInHour(s, at, start) ==
    IF TwoDigits(s, at + 1) < 60 /\ TwoDigits(s, at + 4) < 60
    THEN [ok |-> TRUE, nan |-> FALSE,
          ms |-> WAdd(start,
                      NatBits((TwoDigits(s, at + 1) * 60 + TwoDigits(s, at + 4)) * 1000
                                 + 100 * (s[at + 7] - 48) + TwoDigits(s, at + 8), BigW))]
    ELSE Throw("a date outside the hour of the model")
TimeInHours(s, hours) ==
    IF hours = {} THEN Throw("a date outside the hour of the model")
    ELSE TimeInHour(s, Len(s) - 10, DateHours[CHOOSE h \in hours : TRUE].start)

\* new Date(v).getTime(): null is the epoch, an ISO string of one of the
\* model's hours its milliseconds, a string that is no date NaN
DateGetTime(v) ==
    CASE v.k = "null" -> [ok |-> TRUE, nan |-> FALSE, ms |-> NatBits(0, BigW)]
      [] v.k = "num" -> [ok |-> TRUE, nan |-> FALSE, ms |-> IntToWide(v.v)]
      [] v.k = "str" /\ DateParses(v.v) -> TimeInHours(v.v, HoursOfText(v.v))
      [] OTHER -> [ok |-> TRUE, nan |-> TRUE, ms |-> NatBits(0, BigW)]

\* the text of millisecond n of the hour written prefix
HourText(prefix, n) ==
    Str(prefix \o <<48 + (n \div 600000), 48 + ((n \div 60000) % 10), 58,
                    48 + (((n \div 1000) % 60) \div 10), 48 + ((n \div 1000) % 10), 46,
                    48 + ((n % 1000) \div 100), 48 + ((n % 100) \div 10), 48 + (n % 10), 90>>)
\* since, the time passed from the start of an hour, is within the hour
IsWithinHour(since) ==
    /\ \A i \in 23..BigW : since[i] = 0
    /\ WideToInt(since) < 3600000
\* the hours of the model the time ms lies in
HoursOfTime(ms) ==
    {h \in DOMAIN DateHours : IsWithinHour(WSub(ms, DateHours[h].start))}
TextInHours(ms, hours) ==
    IF hours = {} THEN Throw("a date outside the hour of the model")
    ELSE [ok |-> TRUE, val |->
            HourText(DateHours[CHOOSE x \in hours : TRUE].prefix,
                     WideToInt(WSub(ms, DateHours[CHOOSE x \in hours : TRUE].start)))]

\* new Date(ms).toISOString(): a RangeError beyond +-8.64e15, the text of a
\* time in one of the model's hours
ToISOString(ms) ==
    IF WIsNeg(WSub(MaxTimeValue, ms)) \/ WIsNeg(WAdd(ms, MaxTimeValue))
    THEN Throw("RangeError: Invalid time value")
    ELSE TextInHours(ms, HoursOfTime(ms))

\* buf.writeBigInt64LE(n): the eight bytes of the 64-bit two's complement
I64LE(n) ==
    [b \in 1..8 |-> BitsVal(SubSeq(n, 8 * (b - 1) + 1, 8 * b))]

\* Number(buf.readBigInt64LE(0))
ReadI64LE(buf) ==
    NumberOfBigInt([i \in 1..BigW |->
                      LET at == IF i <= 64 THEN i ELSE 64
                      IN (buf[((at - 1) \div 8) + 1] \div Bit((at - 1) % 8)) % 2])

\* the body of TimestampCodec.encode for the times of the values
TimestampBytes(timestamps) ==
    IF \E i \in 1..Len(timestamps) : ~timestamps[i].ok
    THEN timestamps[CHOOSE i \in 1..Len(timestamps) : ~timestamps[i].ok]
    ELSE IF Len(timestamps) = 0 THEN [ok |-> TRUE, bytes |-> <<>>]
    ELSE IF \E i \in 1..Len(timestamps) : timestamps[i].nan
         THEN Throw("RangeError: NaN cannot be converted to a BigInt")
         ELSE [ok |-> TRUE, bytes |->
                 I64LE(timestamps[1].ms) \o Flat([i \in 1..Len(timestamps) |->
                    Varint_encodeBigInt(WSub(timestamps[i].ms, timestamps[1].ms))])]

\* TimestampCodec.encode(values): BigInt(NaN) is a RangeError
TimestampCodec_encode(values) ==
    TimestampBytes([i \in 1..Len(values) |-> DateGetTime(values[i])] \o <<>>)

\* the while loop of TimestampCodec.decode, then values.map(toISOString):
\* base + Number(delta) is a sum of doubles
RECURSIVE TimestampDecodeLoop(_, _, _, _)
TimestampDecodeNext(buf, offset, base, values, iso) ==
    IF ~iso.ok THEN iso
    ELSE TimestampDecodeLoop(buf, offset, base, Append(values, iso.val))
TimestampDecodeDelta(buf, offset, base, values, r) ==
    IF ~r.ok THEN r
    ELSE TimestampDecodeNext(buf, offset + r.bytesRead, base, values,
            ToISOString(NumberOfBigInt(WAdd(base, NumberOfBigInt(r.value)))))
TimestampDecodeLoop(buf, offset, base, values) ==
    IF offset >= Len(buf) THEN [ok |-> TRUE, values |-> values]
    ELSE TimestampDecodeDelta(buf, offset, base, values, Varint_decodeBigInt(buf, offset))

\* TimestampCodec.decode(buffer)
TimestampCodec_decode(buf) ==
    IF Len(buf) < 8 THEN [ok |-> TRUE, values |-> <<>>]
    ELSE TimestampDecodeLoop(buf, 8, ReadI64LE(buf), <<>>)

(***************************************************************************)
(* CodecRegistry, with the codecs of the default setup and the EnumCodec   *)
(* the SemanticCompressor constructor adds.                                *)
(***************************************************************************)
\* Object.values(FieldType)[typeNum]: the names at 0..8, the numbers at
\* 9..17, undefined elsewhere
FieldTypeValues(typeNum) ==
    IF typeNum \in 0..8 THEN [k |-> "name", code |-> typeNum]
    ELSE IF typeNum \in 9..17 THEN [k |-> "num", code |-> typeNum - 9]
    ELSE [k |-> "undefined", code |-> -1]

\* a type value that is the number n
TypeNum(n) == [k |-> "num", code |-> n]

\* NamedFieldTypes[key]: a member name gives its number, a number 0..8 its
\* name, anything else undefined
NamedFieldTypes(key) ==
    CASE key.k = "name" -> [k |-> "num", code |-> key.code]
      [] key.k = "num" /\ key.code \in 0..8 -> [k |-> "name", code |-> key.code]
      [] OTHER -> [k |-> "undefined", code |-> -1]

\* the keys of the registry's map: every type but OBJECT
RegisteredTypes ==
    {FT_UUID, FT_TIMESTAMP, FT_ENUM, FT_BOOLEAN, FT_NUMBER, FT_ARRAY,
     FT_ARRAY_PRIMITIVE, FT_STRING}

\* CodecRegistry.supports(type)
registry_supports(type) == type.k = "num" /\ type.code \in RegisteredTypes

\* CodecRegistry.get(type): the codec is named by the type it serves
registry_get(type) ==
    IF registry_supports(type) THEN [ok |-> TRUE, codec |-> type.code]
    ELSE IF registry_supports(NamedFieldTypes(type))
         THEN [ok |-> TRUE, codec |-> NamedFieldTypes(type).code]
         ELSE Throw("No codec registered for field type")

(***************************************************************************)
(* The codecs behind the registry, ArrayPrimitiveCodec and                 *)
(* ArrayObjectCodec, which call back into it.                              *)
(***************************************************************************)
RECURSIVE CodecEncode(_, _)
RECURSIVE CodecDecode(_, _)

\* reads `left` varints from offset on
RECURSIVE ReadLengths(_, _, _, _)
ReadLengths(buf, offset, left, lengths) ==
    IF left = 0 THEN [ok |-> TRUE, lengths |-> lengths, offset |-> offset]
    ELSE LET r == Varint_decode(buf, offset)
         IN IF ~r.ok THEN r
            ELSE ReadLengths(buf, offset + r.bytesRead, left - 1,
                             Append(lengths, WideToInt(r.value)))

\* cuts `flat` into arrays of the given lengths, from element idx on;
\* fails when the elements run out
RECURSIVE Regroup(_, _, _, _, _)
Regroup(flat, lengths, i, idx, msg) ==
    IF i > Len(lengths) THEN [ok |-> TRUE, values |-> <<>>, idx |-> idx]
    ELSE IF idx + lengths[i] > Len(flat) THEN Throw(msg)
    ELSE LET rest == Regroup(flat, lengths, i + 1, idx + lengths[i], msg)
         IN IF ~rest.ok THEN rest
            ELSE [ok |-> TRUE, idx |-> rest.idx,
                  values |-> <<Arr(SubSeq(flat, idx + 1, idx + lengths[i]))>> \o rest.values]

\* ArrayPrimitiveCodec.encode(values)
ArrayPrimitiveCodec_encode(values) ==
    IF \E i \in 1..Len(values) : values[i].k # "arr"
    THEN Throw("TypeError: cannot read the length of a value that is no array")
    ELSE LET countBuf == VarintBytes(Len(values))
             lengthBuf == Flat([i \in 1..Len(values) |-> VarintBytes(Len(values[i].v))])
             flattened == Flat([i \in 1..Len(values) |-> values[i].v])
         IN IF flattened = <<>> THEN [ok |-> TRUE, bytes |-> countBuf \o lengthBuf]
    ELSE With([detected \in {detectType(flattened)} |->
         LET type == IF detected # FT_NUMBER /\ isNumber(flattened)
                     THEN FT_NUMBER ELSE detected
             codec == registry_get(TypeNum(type))
             data == CodecEncode(codec.codec, flattened)
         IN IF ~codec.ok THEN codec
            ELSE IF ~data.ok THEN data
            ELSE [ok |-> TRUE, bytes |->
                    countBuf \o lengthBuf \o <<type>>
                       \o VarintBytes(Len(data.bytes)) \o data.bytes]])

\* ArrayPrimitiveCodec.decode(buffer)
ArrayPrimitiveCodec_decode(buf) ==
    IF buf = <<>> THEN [ok |-> TRUE, values |-> <<>>]
    ELSE LET rc == Varint_decode(buf, 0)
         IN IF ~rc.ok THEN rc
    ELSE With([ls \in {ReadLengths(buf, rc.bytesRead, WideToInt(rc.value), <<>>)} |->
         IF ~ls.ok THEN ls
    ELSE IF (\A i \in 1..Len(ls.lengths) : ls.lengths[i] = 0) \/ ls.offset >= Len(buf)
         THEN [ok |-> TRUE, values |-> [i \in 1..Len(ls.lengths) |-> Arr(<<>>)]]
    ELSE With([il \in {Varint_decode(buf, ls.offset + 1)} |->
         IF ~il.ok THEN il
    ELSE LET innerTypeNum == buf[ls.offset + 1]
             offset == ls.offset + 1 + il.bytesRead
             innerLen == WideToInt(il.value)
             innerCodec == registry_get(FieldTypeValues(innerTypeNum))
             fv == CodecDecode(innerCodec.codec, Slice(buf, offset, offset + innerLen))
             g == Regroup(fv.values, ls.lengths, 1, 0,
                          "Not enough flattened values for array reconstruction")
         IN IF offset + innerLen > Len(buf) THEN Throw("Inner data truncated")
            ELSE IF ~innerCodec.ok THEN innerCodec
            ELSE IF ~fv.ok THEN fv
            ELSE IF ~g.ok THEN g
            ELSE IF g.idx # Len(fv.values) THEN Throw("Too many flattened values decoded")
            ELSE [ok |-> TRUE, values |-> g.values]])])

\* the per-field loop of ArrayObjectCodec.encode: done[i] is the outcome of
\* the iteration for column i
EncodeNested(columns) ==
    With([done \in {[i \in 1..Len(columns.v) |->
                       LET fieldName == columns.v[i][1]
                           colValues == columns.v[i][2].v
                           type == detectType(colValues)
                           codec == registry_get(TypeNum(type))
                           encoded == CodecEncode(codec.codec, colValues)
                       IN IF ~codec.ok THEN codec
                          ELSE IF ~encoded.ok THEN encoded
                          ELSE [ok |-> TRUE, bytes |->
                                  <<Len(fieldName) % 256>> \o fieldName \o <<type>>
                                     \o VarintBytes(Len(encoded.bytes)) \o encoded.bytes]]} |->
       IF \E i \in DOMAIN done : ~done[i].ok THEN FirstThrown(done)
       ELSE [ok |-> TRUE, bytes |-> Flat([i \in DOMAIN done |-> done[i].bytes])]])

\* ArrayObjectCodec.encode(values)
ArrayObjectCodec_encode(values) ==
    IF \E i \in 1..Len(values) : values[i].k # "arr"
    THEN Throw("TypeError: cannot read the length of a value that is no array")
    ELSE LET countBuf == VarintBytes(Len(values))
             lengthBuffer == Flat([i \in 1..Len(values) |-> VarintBytes(Len(values[i].v))])
             flattenedItems == Flat([i \in 1..Len(values) |-> values[i].v])
         IN IF flattenedItems = <<>> THEN [ok |-> TRUE, bytes |-> countBuf \o lengthBuffer]
    ELSE With([columns \in {ColumnBuilder_build(flattenedItems)} |->
         LET nested == EncodeNested(columns)
         IN IF ~nested.ok THEN nested
            ELSE [ok |-> TRUE, bytes |->
                    countBuf \o lengthBuffer \o VarintBytes(Len(columns.v))
                       \o nested.bytes]])

\* the per-field loop of ArrayObjectCodec.decode: nestedColumns is keyed
\* by name, fieldNames keeps one entry per field read
RECURSIVE DecodeNested(_, _, _, _, _)
DecodeNested(buf, offset, left, nestedColumns, fieldNames) ==
    IF left = 0 THEN [ok |-> TRUE, columns |-> nestedColumns, names |-> fieldNames]
    ELSE IF offset >= Len(buf) THEN Throw("Truncated name length")
    ELSE LET nameLen == buf[offset + 1]
             at == offset + 1 + nameLen
             fieldName == Slice(buf, offset + 1, at)
         IN IF at > Len(buf) THEN Throw("Truncated name")
            ELSE IF at >= Len(buf) THEN Throw("Truncated type")
    ELSE With([pl \in {Varint_decode(buf, at + 1)} |->
         IF ~pl.ok THEN pl
    ELSE LET typeNum == buf[at + 1]
             from == at + 1 + pl.bytesRead
             payloadLen == WideToInt(pl.value)
             codec == registry_get(FieldTypeValues(typeNum))
             col == CodecDecode(codec.codec, Slice(buf, from, from + payloadLen))
         IN IF from + payloadLen > Len(buf) THEN Throw("Truncated payload")
            ELSE IF ~codec.ok THEN codec
            ELSE IF ~col.ok THEN col
            ELSE DecodeNested(buf, from + payloadLen, left - 1,
                              ObjSet(nestedColumns, fieldName, Arr(col.values)),
                              Append(fieldNames, fieldName))])

\* flatRows[row][fieldName] = values[row], field by field
RECURSIVE FillRows(_, _, _, _)
FillRows(flatRows, nestedColumns, fieldNames, f) ==
    IF f > Len(fieldNames) THEN flatRows
    ELSE LET values == ObjGet(nestedColumns, fieldNames[f]).v
         IN FillRows([row \in 1..Len(flatRows) |->
                        IF row <= Len(values)
                        THEN ObjSet(flatRows[row], fieldNames[f], values[row])
                        ELSE flatRows[row]],
                     nestedColumns, fieldNames, f + 1)

\* ArrayObjectCodec.decode(buffer); maxLen is Math.max(0, ...lengths of the
\* columns)
ArrayObjectCodec_decode(buf) ==
    IF buf = <<>> THEN [ok |-> TRUE, values |-> <<>>]
    ELSE LET ac == Varint_decode(buf, 0)
         IN IF ~ac.ok THEN ac
    ELSE With([ls \in {ReadLengths(buf, ac.bytesRead, WideToInt(ac.value), <<>>)} |->
         IF ~ls.ok THEN ls
    ELSE IF ls.offset >= Len(buf)
         THEN [ok |-> TRUE, values |-> [i \in 1..Len(ls.lengths) |-> Arr(<<>>)]]
    ELSE LET fc == Varint_decode(buf, ls.offset)
         IN IF ~fc.ok THEN fc
    ELSE With([d \in {DecodeNested(buf, ls.offset + fc.bytesRead, WideToInt(fc.value),
                                   Obj(<<>>), <<>>)} |->
         IF ~d.ok THEN d
    ELSE LET lens == {Len(d.columns.v[i][2].v) : i \in 1..Len(d.columns.v)} \cup {0}
             maxLen == CHOOSE m \in lens : \A l \in lens : l <= m
             flatRows == FillRows([row \in 1..maxLen |-> Obj(<<>>)],
                                  d.columns, d.names, 1)
             g == Regroup(flatRows, ls.lengths, 1, 0,
                          "Flat index overflow during array reconstruction")
         IN IF ~g.ok THEN g ELSE [ok |-> TRUE, values |-> g.values]])])

\* codec.encode(values) for the codec the registry returned
CodecEncode(codec, values) ==
    CASE codec = FT_STRING -> AdaptiveStringCodec_encode(values)
      [] codec = FT_NUMBER -> NumberCodec_encode(values)
      [] codec = FT_BOOLEAN -> BooleanCodec_encode(values)
      [] codec = FT_TIMESTAMP -> TimestampCodec_encode(values)
      [] codec = FT_UUID -> UUIDCodec_encode(values)
      [] codec = FT_ENUM -> EnumCodec_encode(values)
      [] codec = FT_ARRAY -> ArrayObjectCodec_encode(values)
      [] OTHER -> ArrayPrimitiveCodec_encode(values)

\* codec.decode(buffer) for the codec the registry returned
CodecDecode(codec, buf) ==
    CASE codec = FT_STRING -> AdaptiveStringCodec_decode(buf)
      [] codec = FT_NUMBER -> NumberCodec_decode(buf)
      [] codec = FT_BOOLEAN -> BooleanCodec_decode(buf)
      [] codec = FT_TIMESTAMP -> TimestampCodec_decode(buf)
      [] codec = FT_UUID -> UUIDCodec_decode(buf)
      [] codec = FT_ENUM -> EnumCodec_decode(buf)
      [] codec = FT_ARRAY -> ArrayObjectCodec_decode(buf)
      [] OTHER -> ArrayPrimitiveCodec_decode(buf)

(***************************************************************************)
(* NullableCodecWrapper around the codec of a column.                      *)
(***************************************************************************)
\* the number of set bits among the first totalLength bits of the bitmap
PopCount(bitmap, totalLength) ==
    Cardinality({i \in 0..(totalLength - 1) : BitSet(bitmap[(i \div 8) + 1], i % 8)})

\* val === null || val === MISSING: the test a wrapper would make if it
\* left null out of the inner codec's values
IsNeitherNullNorMissing(val) == val.k \notin {"missing", "null"}

\* val !== MISSING
IsNotMissing(val) == val.k # "missing"

\* NullableCodecWrapper.encode(values)
NullableCodecWrapper_encode(codec, values) ==
    With([encodedValues \in {CodecEncode(codec, SelectSeq(values, IsNotMissing))} |->
       IF ~encodedValues.ok THEN encodedValues
       ELSE LET length == Len(values)
                bitmap == PackBits([i \in 1..length |-> IsNotMissing(values[i])])
            IN [ok |-> TRUE, bytes |-> U32LE(length) \o bitmap \o encodedValues.bytes]])

\* the interleaving loop of decode: position i takes the next decoded
\* value when its bit is set, MISSING otherwise
Interleave(bitmap, totalLength, decodedNonNulls) ==
    [n \in 1..totalLength |->
        IF BitSet(bitmap[((n - 1) \div 8) + 1], (n - 1) % 8)
        THEN decodedNonNulls[PopCount(bitmap, n)]
        ELSE Missing]

\* NullableCodecWrapper.decode(buffer)
NullableCodecWrapper_decode(codec, buf) ==
    IF Len(buf) < 4 THEN Throw("Buffer too short to contain length header")
    ELSE LET totalLength == ReadU32LE(buf, 0)
             bitmapLength == CeilDiv(totalLength, 8)
             bitmap == Slice(buf, 4, 4 + bitmapLength)
             expectedNonNulls == PopCount(bitmap, totalLength)
         IN IF totalLength = 0 THEN [ok |-> TRUE, values |-> <<>>]
            ELSE IF Len(buf) < 4 + bitmapLength
                 THEN Throw("Buffer too short to contain bitmap")
    ELSE With([decoded \in {CodecDecode(codec, Slice(buf, 4 + bitmapLength, Len(buf)))} |->
         IF ~decoded.ok THEN decoded
         ELSE IF expectedNonNulls # Len(decoded.values)
              THEN Throw("non-null values mismatch")
              ELSE [ok |-> TRUE,
                    values |-> Interleave(bitmap, totalLength, decoded.values)]])

(***************************************************************************)
(* HeaderEncoder.                                                          *)
(***************************************************************************)
MagicSAJC == <<83, 65, 74, 67>>
MagicSJCB == <<83, 74, 67, 66>>

\* the version a compressor is built with when no option is given
DefaultVersion == 1

\* HeaderEncoder.encode({version, fields}): Buffer.from([n]) keeps n % 256
HeaderEncoder_encode(version, fields) ==
    MagicSAJC \o <<version % 256>> \o U16LE(Len(fields))
       \o Flat([i \in 1..Len(fields) |->
                  <<Len(fields[i].name) % 256>> \o fields[i].name
                     \o <<fields[i].type % 256>> \o U32LE(fields[i].byteLength)])

(***************************************************************************)
(* SemanticCompressor.                                                     *)
(***************************************************************************)
\* the order of Array.prototype.sort() without a comparator: by code unit,
\* a proper prefix first
RECURSIVE StrLess(_, _)
StrLess(a, b) ==
    IF b = <<>> THEN FALSE
    ELSE IF a = <<>> THEN TRUE
    ELSE IF Head(a) # Head(b) THEN Head(a) < Head(b)
    ELSE StrLess(Tail(a), Tail(b))

RECURSIVE SortKeys(_)
SortKeys(keys) ==
    IF keys = {} THEN <<>>
    ELSE LET least == CHOOSE k \in keys : \A o \in keys \ {k} : StrLess(k, o)
         IN <<least>> \o SortKeys(keys \ {least})

\* the keys of all objects of the sequence, in order of first appearance
RECURSIVE KeysInOrder(_, _, _)
KeysInOrder(objs, i, seen) ==
    IF i > Len(objs) THEN seen
    ELSE LET fresh == SelectSeq(ObjKeys(objs[i]),
                                LAMBDA k : \A j \in 1..Len(seen) : seen[j] # k)
         IN KeysInOrder(objs, i + 1, seen \o fresh)

\* SemanticCompressor.buildSchema, for one column
buildSchema(values) ==
    LET realValues == SelectSeq(values, LAMBDA x : x.k # "missing")
    IN detectType(IF Len(realValues) > 0 THEN realValues ELSE values)

\* SemanticCompressor.resolveCodec(type)
resolveCodec(type) == registry_get(TypeNum(type))

\* the column loop of prepareData: done[i] is the outcome of the iteration
\* for column i, which encodes, decodes and compares the JSON texts
PrepareColumns(columns) ==
    With([done \in {[i \in 1..Len(columns.v) |->
       LET values == columns.v[i][2].v
           type == buildSchema(values)
           codec == resolveCodec(type)
       IN IF ~codec.ok THEN codec
          ELSE With([encoded \in {NullableCodecWrapper_encode(codec.codec, values)} |->
               IF ~encoded.ok THEN encoded
          ELSE With([decoded \in {NullableCodecWrapper_decode(codec.codec, encoded.bytes)} |->
               IF ~decoded.ok THEN decoded
               ELSE IF JsonStringify(Arr(values)) # JsonStringify(Arr(decoded.values))
                    THEN Throw("Round-trip integrity check failed")
                    ELSE [ok |-> TRUE,
                          field |-> [name |-> columns.v[i][1], type |-> type,
                                     byteLength |-> Len(encoded.bytes)],
                          buffer |-> encoded.bytes]])])]} |->
       IF \E i \in DOMAIN done : ~done[i].ok THEN FirstThrown(done)
       ELSE [ok |-> TRUE,
             fields |-> [i \in DOMAIN done |-> done[i].field],
             columnBuffers |-> [i \in DOMAIN done |-> done[i].buffer]]])

\* prepareData's columns when the flat records are not backfilled: each
\* record gives a value only to the flat keys it has
PreparedColumnsNoBackfill(records) ==
    LET sortedKeys == SortKeys(Range(KeysInOrder(records, 1, <<>>)))
        WithMissing(r) ==
            Obj([i \in 1..Len(sortedKeys) |->
                   <<sortedKeys[i],
                     IF ObjHas(r, sortedKeys[i]) /\ ObjGet(r, sortedKeys[i]).k # "undefined"
                     THEN ObjGet(r, sortedKeys[i]) ELSE Missing>>])
    IN ColumnBuilder_build([i \in 1..Len(records) |-> flatten(WithMissing(records[i]))])

\* the columns prepareData builds: sorted keys, MISSING for absent keys,
\* flattening, backfilling, ColumnBuilder.build.
\* WithMissing: flat[key] = key in r && value !== undefined ? value : MISSING,
\* over the sorted keys; Backfill: f[key] = MISSING for every key of
\* allFlattenedKeys that f lacks
PreparedColumns(records) ==
    LET sortedKeys == SortKeys(Range(KeysInOrder(records, 1, <<>>)))
        WithMissing(r) ==
            Obj([i \in 1..Len(sortedKeys) |->
                   <<sortedKeys[i],
                     IF ObjHas(r, sortedKeys[i]) /\ ObjGet(r, sortedKeys[i]).k # "undefined"
                     THEN ObjGet(r, sortedKeys[i]) ELSE Missing>>])
        flattened == [i \in 1..Len(records) |-> flatten(WithMissing(records[i]))]
        allFlattenedKeys == KeysInOrder(flattened, 1, <<>>)
        Backfill(f) ==
            LET lacking == SelectSeq(allFlattenedKeys, LAMBDA k : ~ObjHas(f, k))
            IN Obj(f.v \o [i \in 1..Len(lacking) |-> <<lacking[i], Missing>>])
    IN ColumnBuilder_build([i \in 1..Len(records) |-> Backfill(flattened[i])])

\* SemanticCompressor.prepareData(records)
prepareData(records) ==
    IF records = <<>> THEN Throw("Cannot compress empty dataset")
    ELSE PrepareColumns(PreparedColumns(records))

\* SemanticCompressor.compress(records)
compress(records) ==
    With([p \in {prepareData(records)} |->
       IF ~p.ok THEN p
       ELSE [ok |-> TRUE, bytes |->
               HeaderEncoder_encode(DefaultVersion, p.fields) \o Flat(p.columnBuffers)]])

\* zlib.brotliCompressSync / brotliDecompressSync stand outside the
\* repository: any lossless framing whose output differs from its input
\* and whose decoder rejects what the encoder cannot have written.  Here a
\* leading length byte, the bytes complemented, and a closing byte.
brotliCompressSync(raw) ==
    <<Len(raw) % 256>> \o [i \in 1..Len(raw) |-> 255 - raw[i]] \o <<3>>
brotliDecompressSync(data) ==
    IF Len(data) < 2 \/ data[Len(data)] # 3 \/ data[1] # (Len(data) - 2) % 256
    THEN Throw("Decompression failed")
    ELSE [ok |-> TRUE, bytes |-> [i \in 1..(Len(data) - 2) |-> 255 - data[i + 1]]]

\* compressColumnarBrotli when the header keeps the byteLengths of the
\* column buffers as they were before the byte compression
compressColumnarBrotliStaleLengths(records) ==
    With([p \in {prepareData(records)} |->
       IF ~p.ok THEN p
       ELSE LET compressedColumns ==
                    [i \in 1..Len(p.fields) |-> brotliCompressSync(p.columnBuffers[i])]
                headerBuffer == HeaderEncoder_encode(DefaultVersion, p.fields)
            IN [ok |-> TRUE, bytes |->
                  MagicSJCB \o Slice(headerBuffer, 4, Len(headerBuffer))
                     \o Flat(compressedColumns)]])

\* SemanticCompressor.compressColumnarBrotli(records)
compressColumnarBrotli(records) ==
    With([p \in {prepareData(records)} |->
       IF ~p.ok THEN p
       ELSE LET compressedColumns ==
                    [i \in 1..Len(p.fields) |-> brotliCompressSync(p.columnBuffers[i])]
                updatedFields ==
                    [i \in 1..Len(p.fields) |->
                        [p.fields[i] EXCEPT !.byteLength = Len(compressedColumns[i])]]
                headerBuffer == HeaderEncoder_encode(DefaultVersion, updatedFields)
            IN [ok |-> TRUE, bytes |->
                  MagicSJCB \o Slice(headerBuffer, 4, Len(headerBuffer))
                     \o Flat(compressedColumns)]])


\* the field loop of decompress: fieldCount header entries from offset on.
\* A name length or a type read past the end is undefined, and the
\* readUInt32LE that follows is then out of range.
RECURSIVE ParseFields(_, _, _, _)
ParseFields(buf, offset, left, fields) ==
    IF left = 0 THEN [ok |-> TRUE, fields |-> fields, offset |-> offset]
    ELSE IF offset >= Len(buf) THEN Throw("RangeError: readUInt32LE out of range")
    ELSE LET nameLen == buf[offset + 1]
             name == Slice(buf, offset + 1, offset + 1 + nameLen)
             at == offset + 1 + nameLen
         IN IF at + 1 + 4 > Len(buf) THEN Throw("RangeError: readUInt32LE out of range")
            ELSE ParseFields(buf, at + 5, left - 1,
                             Append(fields, [name |-> name, type |-> buf[at + 1],
                                             byteLength |-> ReadU32LE(buf, at + 1)]))

\* the column loop of decompress: from[i] is the offset at which column i
\* starts (an offset past the end of the buffer slices like the end of the
\* buffer), done[i] the outcome of the iteration for field i, and
\* columns[i] the map after the first i fields
DecodeColumns(buf, fields, offset, isColumnarBrotli) ==
    LET from[i \in 1..Len(fields)] ==
            IF i = 1 THEN offset
            ELSE IF fields[i - 1].byteLength < Len(buf) - from[i - 1]
                 THEN from[i - 1] + fields[i - 1].byteLength ELSE Len(buf)
    IN With([done \in {[i \in 1..Len(fields) |->
          LET rest == Len(buf) - from[i]
              take == IF fields[i].byteLength < rest THEN fields[i].byteLength ELSE rest
              sliced == Slice(buf, from[i], from[i] + take)
              colBuffer == IF isColumnarBrotli THEN brotliDecompressSync(sliced)
                           ELSE [ok |-> TRUE, bytes |-> sliced]
              codec == resolveCodec(fields[i].type)
          IN IF ~colBuffer.ok THEN colBuffer
             ELSE IF ~codec.ok THEN codec
             ELSE NullableCodecWrapper_decode(codec.codec, colBuffer.bytes)]} |->
       LET columns[i \in 0..Len(fields)] ==
               IF i = 0 THEN Obj(<<>>)
               ELSE ObjSet(columns[i - 1], fields[i].name, Arr(done[i].values))
       IN IF \E i \in DOMAIN done : ~done[i].ok THEN FirstThrown(done)
          ELSE [ok |-> TRUE, columns |-> columns[Len(fields)]]])

\* the flat record of one row: every field whose value is not MISSING (a
\* column shorter than the row count gives undefined)
FlatRecord(columns, fields, row) ==
    LET Put(record, f) ==
            LET col == ObjGet(columns, fields[f].name).v
                val == IF row <= Len(col) THEN col[row] ELSE Undef
            IN IF val.k # "missing" THEN ObjSet(record, fields[f].name, val) ELSE record
        RECURSIVE Fill(_, _)
        Fill(record, f) == IF f > Len(fields) THEN record ELSE Fill(Put(record, f), f + 1)
    IN Fill(Obj(<<>>), 1)

\* flatRecords.map(unflatten)
UnflattenAll(flatRecords) ==
    LET done == [i \in 1..Len(flatRecords) |-> unflatten(flatRecords[i])]
    IN IF \E i \in DOMAIN done : ~done[i].ok THEN FirstThrown(done)
       ELSE [ok |-> TRUE, records |-> [i \in DOMAIN done |-> done[i].val]]

\* SemanticCompressor.decompress(buffer)
decompress(buf) ==
    IF Len(buf) < 8 THEN Throw("Invalid SAJC buffer")
    ELSE LET magic == Slice(buf, 0, 4)
             isColumnarBrotli == magic = MagicSJCB
             h == ParseFields(buf, 7, ReadU16LE(buf, 5), <<>>)
         IN IF magic # MagicSAJC /\ ~isColumnarBrotli THEN Throw("Invalid SAJC magic")
            ELSE IF ~h.ok THEN h
            ELSE IF Len(h.fields) = 0 THEN [ok |-> TRUE, records |-> <<>>]
    ELSE With([c \in {DecodeColumns(buf, h.fields, h.offset, isColumnarBrotli)} |->
         IF ~c.ok THEN c
         ELSE LET rowCount == Len(ObjGet(c.columns, h.fields[1].name).v)
              IN UnflattenAll([row \in 1..rowCount |->
                                 FlatRecord(c.columns, h.fields, row)])])


(***************************************************************************)
(* Specification of the compressor: a batch is collected record by record, *)
(* compressed on either path, and the buffer is decompressed.              *)
(***************************************************************************)
\* the largest batch
MaxRows == 2

\* the records a batch is drawn from: JSON-shaped, over the keys "a", "b",
\* "c", a key of 256 bytes and the key "a.b"; SampleDate is
\* "1970-01-01T00:00:01.500Z", SampleUuid is
\* "550e8400-e29b-41d4-a716-446655440000"
Records ==
    LET KeyA == <<97>>
        KeyB == <<98>>
        KeyC == <<99>>
        LongKey == [i \in 1..256 |-> 97]
        DottedKey == <<97, 46, 98>>
        SampleDate == EpochHourPrefix \o <<48, 48, 58, 48, 49, 46, 53, 48, 48, 90>>
        SampleUuid ==
            <<53, 53, 48, 101, 56, 52, 48, 48, 45, 101, 50, 57, 98, 45, 52, 49, 100,
              52, 45, 97, 55, 49, 54, 45, 52, 52, 54, 54, 53, 53, 52, 52, 48, 48, 48,
              48>>
    IN
    { Obj(<<>>),
      Obj(<< <<KeyA, Num(1)>> >>),
      Obj(<< <<KeyA, Null>> >>),
      Obj(<< <<KeyA, Str(<<120>>)>> >>),
      Obj(<< <<KeyA, Bool(TRUE)>> >>),
      Obj(<< <<KeyB, Num(2)>> >>),
      Obj(<< <<KeyA, Num(1)>>, <<KeyB, Null>> >>),
      Obj(<< <<KeyB, Str(<<121>>)>>, <<KeyA, Str(<<120>>)>> >>),
      Obj(<< <<KeyA, Dec(15, 1)>> >>),
      Obj(<< <<KeyA, Obj(<<>>)>>, <<KeyB, Null>> >>),
      Obj(<< <<KeyA, Obj(<< <<KeyC, Num(1)>> >>)>> >>),
      Obj(<< <<KeyA, Arr(<<Num(1), Num(2)>>)>> >>),
      Obj(<< <<KeyA, Arr(<<>>)>> >>),
      Obj(<< <<KeyA, Arr(<< Obj(<< <<KeyA, Num(1)>>, <<KeyB, Num(2)>> >>),
                            Obj(<< <<KeyB, Num(3)>>, <<KeyA, Num(4)>> >>) >>)>> >>),
      Obj(<< <<KeyA, Arr(<< Obj(<< <<KeyC, Str(<<120>>)>> >>) >>)>> >>),
      Obj(<< <<DottedKey, Num(1)>> >>),
      Obj(<< <<KeyA, Str(SampleDate)>> >>),
      Obj(<< <<KeyA, Str(SampleUuid)>> >>),
      Obj(<< <<LongKey, Num(1)>> >>) }

Init ==
    /\ pc = "input"
    /\ input = <<>>
    /\ buffer = <<>>
    /\ output = [ok |-> TRUE, records |-> <<>>]

\* the caller adds a record to the batch
AddRecord ==
    /\ pc = "input"
    /\ Len(input) < MaxRows
    /\ \E r \in Records : input' = Append(input, r)
    /\ UNCHANGED <<pc, buffer, output>>

\* compressor.compress(batch)
Compress ==
    /\ pc = "input"
    /\ \E r \in {compress(input)} :
          /\ pc' = IF r.ok THEN "compressed" ELSE "rejected"
          /\ buffer' = IF r.ok THEN r.bytes ELSE <<>>
          /\ output' = IF r.ok THEN output ELSE r
    /\ UNCHANGED input

\* compressor.compressColumnarBrotli(batch)
CompressColumnarBrotli ==
    /\ pc = "input"
    /\ \E r \in {compressColumnarBrotli(input)} :
          /\ pc' = IF r.ok THEN "compressed" ELSE "rejected"
          /\ buffer' = IF r.ok THEN r.bytes ELSE <<>>
          /\ output' = IF r.ok THEN output ELSE r
    /\ UNCHANGED input

\* compressor.decompress(buffer)
Decompress ==
    /\ pc = "compressed"
    /\ \E r \in {decompress(buffer)} :
          /\ pc' = IF r.ok THEN "decompressed" ELSE "failed"
          /\ output' = r
    /\ UNCHANGED <<input, buffer>>

Next == AddRecord \/ Compress \/ CompressColumnarBrotli \/ Decompress

Spec == Init /\ [][Next]_vars

\* the buffer came from compressColumnarBrotli
IsBrotliBuffer == Slice(buffer, 0, 4) = MagicSJCB

\* C1: for every non-empty batch of JSON-shaped records compress returns a
\* buffer, and decompress of that buffer is structurally equal to the
\* batch (a missing key and a null value differ, key order does not count).
C1_CompressRoundTrip ==
    (pc # "input" /\ input # <<>> /\ ~IsBrotliBuffer) =>
        /\ pc \notin {"rejected", "failed"}
        /\ pc = "decompressed" => SeqStructEq(output.records, input)

\* C2: for every non-empty batch, decompress of the buffer that
\* compressColumnarBrotli returned is structurally equal to the batch.
C2_BrotliRoundTrip ==
    (pc \in {"decompressed", "failed"} /\ IsBrotliBuffer) =>
        /\ output.ok
        /\ SeqStructEq(output.records, input)

\* the leaves of a record: <<key path, value>> for every value that is no
\* plain object, the path being the sequence of keys that leads to it
RECURSIVE LeavesOf(_, _)
LeavesOf(obj, path) ==
    UNION { IF obj.v[i][2].k = "obj" /\ obj.v[i][2].v # <<>>
            THEN LeavesOf(obj.v[i][2], Append(path, obj.v[i][1]))
            ELSE { <<Append(path, obj.v[i][1]), obj.v[i][2]>> } : i \in 1..Len(obj.v) }

\* every leaf of r is a leaf of s, with an equal value
LeavesWithin(r, s) ==
    \A l \in LeavesOf(r, <<>>) :
        \E m \in LeavesOf(s, <<>>) : m[1] = l[1] /\ StructEq(m[2], l[2])

\* C3: compression never drops data silently: when compress returned a
\* buffer, decompress returns records in which every key path and value of
\* the batch is present and unchanged and no other key appears.
C3_NoSilentLoss ==
    (pc = "decompressed" /\ ~IsBrotliBuffer) =>
        /\ Len(output.records) = Len(input)
        /\ \A i \in 1..Len(input) :
              /\ LeavesWithin(input[i], output.records[i])
              /\ LeavesWithin(output.records[i], input[i])

\* the keys of the batch
BatchKeys(records) == Range(KeysInOrder(records, 1, <<>>))

\* typeof of the values a key holds in the batch, null left out
TypesUnder(records, key) ==
    { TypeOf(ObjGet(records[i], key)) :
        i \in {j \in 1..Len(records) :
                 ObjHas(records[j], key) /\ ObjGet(records[j], key).k # "null"} }

\* a batch of flat records with at least one key, whose columns each hold
\* numbers, booleans or strings only, beside null and absent keys, under
\* plain short keys
IsTypedFlatBatch(records) ==
    /\ BatchKeys(records) # {}
    /\ \A i \in 1..Len(records) : \A p \in 1..Len(records[i].v) :
          /\ records[i].v[p][2].k \in {"null", "num", "dec", "bool", "str"}
          /\ Len(records[i].v[p][1]) < 256
          /\ 46 \notin Range(records[i].v[p][1])
    /\ \A key \in BatchKeys(records) :
          /\ Cardinality(TypesUnder(records, key)) <= 1
          /\ TypesUnder(records, key) \subseteq {"number", "boolean", "string"}

\* C4: null versus missing is preserved for every column whatever its
\* profiled type: after decompress(compress(R)) row i holds key k with
\* null iff input row i did, and lacks k iff input row i lacked it;
\* a column may mix numbers, a null and an absent key.
C4_NullVersusMissing ==
    (pc # "input" /\ input # <<>> /\ IsTypedFlatBatch(input)) =>
        /\ pc \notin {"rejected", "failed"}
        /\ pc = "decompressed" =>
              /\ Len(output.records) = Len(input)
              /\ \A i \in 1..Len(input) : \A key \in BatchKeys(input) :
                    /\ ObjHas(output.records[i], key) <=> ObjHas(input[i], key)
                    /\ (ObjHas(output.records[i], key)
                          /\ ObjGet(output.records[i], key).k = "null")
                       <=> (ObjHas(input[i], key) /\ ObjGet(input[i], key).k = "null")

\* C5: decompress returns exactly as many records as the batch held, the
\* record at index i being the reconstruction of input record i, also for
\* a batch whose records have no keys.
C5_RowCount ==
    (pc \in {"decompressed", "failed"}) =>
        /\ output.ok
        /\ Len(output.records) = Len(input)
        /\ \A i \in 1..Len(input) :
              LET u == unflatten(flatten(input[i]))
              IN u.ok /\ StructEq(output.records[i], u.val)

\* per column of the batch: whether the nullable-wrapped decode of the
\* column's encoding exists and is structurally equal to the column
ColumnVerdicts(records) ==
    LET columns == PreparedColumns(records)
    IN [i \in 1..Len(columns.v) |->
          LET values == columns.v[i][2].v
              codec == resolveCodec(buildSchema(values))
              encoded == IF codec.ok THEN NullableCodecWrapper_encode(codec.codec, values)
                         ELSE codec
              decoded == IF encoded.ok
                         THEN NullableCodecWrapper_decode(codec.codec, encoded.bytes)
                         ELSE encoded
          IN decoded.ok /\ SeqStructEq(values, decoded.values)]

\* C6: the self-check rejects exactly when it must: compress fails iff for
\* some column the wrapped decode of its encoding is not structurally
\* equal to the column (MISSING differs from null, key order inside
\* objects does not count).
C6_SelfCheckExact ==
    (pc \in {"compressed", "rejected"} /\ input # <<>>) =>
        ((pc = "rejected") <=>
            \E i \in 1..Len(ColumnVerdicts(input)) : ~ColumnVerdicts(input)[i])

\* the column buffers as written after the header
WrittenColumns(records) ==
    LET p == prepareData(records)
    IN [i \in 1..Len(p.columnBuffers) |->
          IF IsBrotliBuffer THEN brotliCompressSync(p.columnBuffers[i])
          ELSE p.columnBuffers[i]]

\* C7: header and payload agree in every buffer compress or
\* compressColumnarBrotli returns: the u16 field count is the number of
\* entries, entry i's byteLength is the length of the i-th column buffer,
\* the buffers follow the header in its order, the total length is the
\* header plus the byteLengths, and the header parses back to the written
\* (name, type, byteLength) triples.
C7_HeaderMatchesPayload ==
    (pc = "compressed") =>
        LET p == prepareData(input)
            written == WrittenColumns(input)
            h == ParseFields(buffer, 7, ReadU16LE(buffer, 5), <<>>)
            StartOf(i) == h.offset + SumSeq([j \in 1..(i - 1) |-> Len(written[j])])
        IN /\ ReadU16LE(buffer, 5) = Len(p.fields)
           /\ h.ok
           /\ Len(h.fields) = Len(p.fields)
           /\ \A i \in 1..Len(p.fields) :
                 /\ h.fields[i].name = p.fields[i].name
                 /\ h.fields[i].type = p.fields[i].type
                 /\ h.fields[i].byteLength = Len(written[i])
                 /\ Slice(buffer, StartOf(i), StartOf(i) + Len(written[i])) = written[i]
           /\ Len(buffer) = StartOf(Len(p.fields) + 1)


(***************************************************************************)
(* Specification of the nullable wrapper: a column is encoded and decoded  *)
(* again, or a wire buffer arrives from outside and is decoded.            *)
(***************************************************************************)
\* the longest column
MaxCol == 9
\* the longest of the exhaustively enumerated string columns
MaxStrings == 4
\* the longest of the exhaustively enumerated enum columns
MaxEnum == 5
\* the most objects of an array of an array column
MaxItems == 2
\* the most rows of an array column or of an array payload put on the wire
MaxArrayRows == 2
\* the longest body of a string payload put on the wire
MaxBody == 4

\* the inner codecs the columns are encoded with
WrappedCodecs == {FT_BOOLEAN, FT_NUMBER, FT_STRING}

\* the column of length n whose position i is present iff bit i of mask is
\* set; a present position holds a value of the codec's type, and the string
\* columns hold a null at every third position
ColumnOf(codec, n, mask) ==
    LET Filler(i) ==
            CASE codec = FT_BOOLEAN -> Bool(i % 2 = 0)
              [] codec = FT_NUMBER -> Num(i)
              [] OTHER -> IF i % 3 = 0 THEN Null ELSE Str(<<120 + (i % 3)>>)
    IN [i \in 1..n |-> IF (mask \div (2 ^ (i - 1))) % 2 = 1 THEN Filler(i) ELSE Missing]

\* the bitmap bytes a wire buffer may hold
WireBytes == {0, 1, 5, 255}

NullableInit ==
    /\ pc = "start"
    /\ input = [from |-> "none", codec |-> FT_BOOLEAN, values |-> <<>>]
    /\ buffer = <<>>
    /\ output = [ok |-> TRUE, values |-> <<>>]

\* the compressor hands a column to the wrapper
ChooseColumn ==
    /\ pc = "start"
    /\ \E codec \in WrappedCodecs, n \in 0..MaxCol :
         \E mask \in 0..(2 ^ n - 1) :
            input' = [from |-> "column", codec |-> codec, values |-> ColumnOf(codec, n, mask)]
    /\ pc' = "column"
    /\ UNCHANGED <<buffer, output>>

\* wrapped.encode(values)
WrapperEncode ==
    /\ pc = "column"
    /\ \E r \in {NullableCodecWrapper_encode(input.codec, input.values)} :
          /\ pc' = IF r.ok THEN "encoded" ELSE "rejected"
          /\ buffer' = IF r.ok THEN r.bytes ELSE <<>>
          /\ output' = IF r.ok THEN output ELSE r
    /\ UNCHANGED input

\* a buffer arrives whose header, bitmap and boolean payload need not agree
ReceiveWire ==
    /\ pc = "start"
    /\ \E n \in 0..MaxCol, k \in 0..MaxCol :
         \E bitmap \in [1..CeilDiv(n, 8) -> WireBytes] :
            LET inner == [i \in 1..k |-> Bool(i % 2 = 1)]
            IN /\ input' = [from |-> "wire", codec |-> FT_BOOLEAN, values |-> inner]
               /\ buffer' = U32LE(n) \o bitmap \o BooleanCodec_encode(inner).bytes
    /\ pc' = "encoded"
    /\ UNCHANGED output

\* wrapped.decode(buffer)
WrapperDecode ==
    /\ pc = "encoded"
    /\ output' = NullableCodecWrapper_decode(input.codec, buffer)
    /\ pc' = "decoded"
    /\ UNCHANGED <<input, buffer>>

NullableNext == ChooseColumn \/ WrapperEncode \/ ReceiveWire \/ WrapperDecode

SpecNullable == NullableInit /\ [][NullableNext]_vars

\* C8: for a column C of length n, NullableCodecWrapper.encode(C) is n as a
\* u32 little-endian, then exactly ceil(n/8) bitmap bytes in which bit
\* (i mod 8) of byte floor(i/8) is set iff C[i] is not MISSING (a null sets
\* its bit, the popcount is the number of non-MISSING entries), then the
\* inner codec's encoding of the non-MISSING values in row order.
C8_WrapperEncodeLayout ==
    (pc = "encoded" /\ input.from = "column") =>
        LET C == input.values
            n == Len(C)
            kept == SelectSeq(C, LAMBDA x : x.k # "missing")
            payload == CodecEncode(input.codec, kept)
            bitmap == Slice(buffer, 4, 4 + CeilDiv(n, 8))
        IN /\ Len(buffer) >= 4 + CeilDiv(n, 8)
           /\ Slice(buffer, 0, 4) = U32LE(n)
           /\ \A i \in 0..(n - 1) :
                 BitSet(bitmap[(i \div 8) + 1], i % 8) <=> C[i + 1].k # "missing"
           /\ \A i \in 0..(n - 1) :
                 C[i + 1].k = "null" => BitSet(bitmap[(i \div 8) + 1], i % 8)
           /\ PopCount(bitmap, n) = Len(kept)
           /\ payload.ok
           /\ Slice(buffer, 4 + CeilDiv(n, 8), Len(buffer)) = payload.bytes

\* a nine-element column with a MISSING and a null entry has been encoded
C8_Witness ==
    /\ pc = "encoded"
    /\ input.from = "column"
    /\ Len(input.values) = 9
    /\ \E i \in 1..9 : input.values[i].k = "missing"
    /\ \E i \in 1..9 : input.values[i].k = "null"
    /\ input.values[9].k # "missing"
    /\ Len(buffer) > 6

\* C9: NullableCodecWrapper.decode fails, for every row count n >= 0,
\* whenever the inner codec decodes a number of values different from the
\* popcount of the bitmap; when it succeeds the result has length n, with
\* MISSING exactly where the bit is clear and the inner values in order
\* where it is set.
C9_WrapperDecodeChecksCount ==
    (pc = "decoded" /\ Len(buffer) >= 4) =>
        LET n == ReadU32LE(buffer, 0)
            bitmap == Slice(buffer, 4, 4 + CeilDiv(n, 8))
            inner == CodecDecode(input.codec, Slice(buffer, 4 + CeilDiv(n, 8), Len(buffer)))
        IN Len(buffer) >= 4 + CeilDiv(n, 8) =>
             /\ (inner.ok /\ Len(inner.values) # PopCount(bitmap, n)) => ~output.ok
             /\ output.ok =>
                  /\ Len(output.values) = n
                  /\ \A i \in 0..(n - 1) :
                        IF BitSet(bitmap[(i \div 8) + 1], i % 8)
                        THEN output.values[i + 1] =
                                inner.values[Cardinality({j \in 0..i :
                                    BitSet(bitmap[(j \div 8) + 1], j % 8)})]
                        ELSE output.values[i + 1].k = "missing"

(***************************************************************************)
(* Specification of the varint utilities: an integer is drawn, encoded,    *)
(* and the encoding decoded.                                               *)
(***************************************************************************)
Ones(k) == [i \in 1..BigW |-> IF i <= k THEN 1 ELSE 0]
OneHot(k) == [i \in 1..BigW |-> IF i = k + 1 THEN 1 ELSE 0]

\* unsigned 32-bit samples: 2^k - 1 (k = 0..32), 2^k and 2^k + 1 (k < 32)
U32Samples ==
    {Ones(k) : k \in 0..32} \cup {OneHot(k) : k \in 0..31}
    \cup {WOr(OneHot(k), OneHot(0)) : k \in 1..31}

\* signed 64-bit samples: 2^k - 1 (k <= 63), 2^k (k <= 62) and their
\* complements -2^k and -2^k - 1
BigSamples ==
    LET pos == {Ones(k) : k \in 0..63} \cup {OneHot(k) : k \in 0..62}
    IN pos \cup {WNot(p) : p \in pos}

\* the longest buffer handed to Varint.decode from outside
MaxWire == 7

\* the buffers handed to Varint.decode from outside: up to MaxWire bytes, each
\* a terminator (01) or a byte with the continuation bit (80, FF)
VarintBuffers == UNION {[1..n -> {1, 128, 255}] : n \in 0..MaxWire}

VarintInit ==
    /\ pc = "start"
    /\ input \in [kind : {"u32"}, x : U32Samples] \cup [kind : {"big"}, x : BigSamples]
                 \cup [kind : {"wire"}, x : VarintBuffers]
    /\ buffer = <<>>
    /\ output = [ok |-> FALSE, err |-> "none"]

EncodeU32 ==
    /\ pc = "start"
    /\ input.kind = "u32"
    /\ buffer' = Varint_encode(input.x).bytes
    /\ pc' = "encoded"
    /\ UNCHANGED <<input, output>>

DecodeU32 ==
    /\ pc = "encoded"
    /\ input.kind = "u32"
    /\ output' = Varint_decode(buffer, 0)
    /\ pc' = "decoded"
    /\ UNCHANGED <<input, buffer>>

EncodeBig ==
    /\ pc = "start"
    /\ input.kind = "big"
    /\ buffer' = Varint_encodeBigInt(input.x)
    /\ pc' = "encoded"
    /\ UNCHANGED <<input, output>>

DecodeBig ==
    /\ pc = "encoded"
    /\ input.kind = "big"
    /\ output' = Varint_decodeBigInt(buffer, 0)
    /\ pc' = "decoded"
    /\ UNCHANGED <<input, buffer>>

\* Varint.decode(buffer) on a buffer that no encode produced
DecodeBuffer ==
    /\ pc = "start"
    /\ input.kind = "wire"
    /\ buffer' = input.x
    /\ output' = Varint_decode(input.x, 0)
    /\ pc' = "read"
    /\ UNCHANGED input

VarintNext == EncodeU32 \/ DecodeU32 \/ EncodeBig \/ DecodeBig \/ DecodeBuffer

SpecVarint == VarintInit /\ [][VarintNext]_vars

\* C10: Varint round trip. decode(encode(x)) gives back x and reads the
\* whole encoding for every unsigned 32-bit x; encode(x) is one byte for
\* x < 128; decodeBigInt(encodeBigInt(n)) gives back n for every signed
\* 64-bit n.
C10_VarintRoundTrip ==
    /\ (pc = "decoded" /\ input.kind = "u32") =>
          /\ output.ok
          /\ output.value = input.x
          /\ output.bytesRead = Len(buffer)
    /\ (pc \in {"encoded", "decoded"} /\ input.kind = "u32"
           /\ \A i \in 8..BigW : input.x[i] = 0) => Len(buffer) = 1
    /\ (pc = "decoded" /\ input.kind = "big") =>
          /\ output.ok
          /\ output.value = input.x
          /\ output.bytesRead = Len(buffer)

\* a 5-byte unsigned value with bit 31 set and the most negative 64-bit
\* integer have both been encoded and decoded
C10_Witness ==
    /\ pc = "decoded"
    /\ \/ (input.kind = "u32" /\ input.x = Ones(32) /\ Len(buffer) = 5)
       \/ (input.kind = "big" /\ input.x = WNot(Ones(63)) /\ Len(buffer) = 10)

\* the number of leading bytes of buf that carry the continuation bit
LeadingContinued(buf) ==
    Cardinality({k \in 1..Len(buf) : \A j \in 1..k : buf[j] >= 128})

\* C11: Varint.decode on an arbitrary buffer. When the first five bytes all
\* carry the continuation bit, decode fails with the overflow error whatever
\* follows them (it reads no sixth byte and returns no value); when the
\* buffer ends before a byte without the continuation bit and before five
\* such bytes, decode fails with the out-of-bounds error.
C11_DecodeOverflowAndTruncation ==
    (pc = "read") =>
        /\ LeadingContinued(buffer) >= 5 =>
               (~output.ok /\ output.err = "Varint too long for 32-bit integer")
        /\ (LeadingContinued(buffer) = Len(buffer) /\ Len(buffer) < 5) =>
               (~output.ok /\ output.err = "Varint decode out of bounds")

(***************************************************************************)
(* Specification of the field codecs: a column is handed to the codec of   *)
(* its type, encoded and decoded again, or a payload arrives from outside  *)
(* and is decoded.                                                         *)
(***************************************************************************)
\* a column handed to codec.encode, a payload handed to codec.decode
Column(codec, values) == [from |-> "column", codec |-> codec, values |-> values, bytes |-> <<>>]
Payload(codec, bytes) == [from |-> "wire", codec |-> codec, values |-> <<>>, bytes |-> bytes]

\* every column of up to MaxCol booleans
BooleanColumns ==
    {Column(FT_BOOLEAN, c) : c \in UNION {[1..n -> {Bool(TRUE), Bool(FALSE)}] : n \in 0..MaxCol}}

\* boolean payloads: a count n and ceil(n/8) bytes whose bits past n may be set
BooleanPayloads ==
    UNION {{Payload(FT_BOOLEAN, <<n>> \o b) : b \in [1..CeilDiv(n, 8) -> {0, 1, 77, 255}]} :
              n \in 1..MaxCol}

\* UUID strings the profiler's rule accepts: "550e8400-e29b-41d4-a716-446655440000",
\* "123e4567-e89b-12d3-a456-426614174000" and the first one in upper case,
\* "550E8400-E29B-41D4-A716-446655440000"
UuidStrings ==
    { <<53, 53, 48, 101, 56, 52, 48, 48, 45, 101, 50, 57, 98, 45, 52, 49, 100, 52,
          45, 97, 55, 49, 54, 45, 52, 52, 54, 54, 53, 53, 52, 52, 48, 48, 48, 48>>,
      <<49, 50, 51, 101, 52, 53, 54, 55, 45, 101, 56, 57, 98, 45, 49, 50, 100, 51,
          45, 97, 52, 53, 54, 45, 52, 50, 54, 54, 49, 52, 49, 55, 52, 48, 48, 48>>,
      <<53, 53, 48, 69, 56, 52, 48, 48, 45, 69, 50, 57, 66, 45, 52, 49, 68, 52,
          45, 65, 55, 49, 54, 45, 52, 52, 54, 54, 53, 53, 52, 52, 48, 48, 48, 48>> }

\* every column of up to two of these strings
UuidColumns ==
    {Column(FT_UUID, c) : c \in UNION {[1..n -> {Str(s) : s \in UuidStrings}] : n \in 0..2}}

\* timestamps of the model's hours: each prefix followed by "00:00.000Z",
\* "00:00.001Z", "00:00.002Z", "00:01.500Z", "59:59.996Z" or "59:59.997Z"
TimestampStrings ==
    {DateHours[h].prefix \o tail :
        h \in DOMAIN DateHours,
        tail \in { <<48, 48, 58, 48, 48, 46, 48, 48, 48, 90>>,
                   <<48, 48, 58, 48, 48, 46, 48, 48, 49, 90>>,
                   <<48, 48, 58, 48, 48, 46, 48, 48, 50, 90>>,
                   <<48, 48, 58, 48, 49, 46, 53, 48, 48, 90>>,
                   <<53, 57, 58, 53, 57, 46, 57, 57, 54, 90>>,
                   <<53, 57, 58, 53, 57, 46, 57, 57, 55, 90>> } }

\* every column of up to two of these timestamps
TimestampColumns ==
    {Column(FT_TIMESTAMP, c) :
        c \in UNION {[1..n -> {Str(s) : s \in TimestampStrings}] : n \in 0..2}}

\* every column of up to three of the values 1, 2, 3, -1, 300, 1.5 and null
NumberColumns ==
    {Column(FT_NUMBER, c) :
        c \in UNION {[1..n -> {Num(1), Num(2), Num(3), Num(-1), Num(300), Dec(15, 1), Null}] :
                        n \in 0..3}}

\* the column of ten strings whose first u are "A", "B", ... and whose
\* others repeat the last of these: u unique values among ten
TenStrings(u) == [i \in 1..10 |-> Str(<<64 + (IF i < u THEN i ELSE u)>>)]

\* every column of up to MaxStrings of the values "A", "B", the empty
\* string and null, and the ten-string columns with 1 to 10 unique values
StringColumns ==
    {Column(FT_STRING, c) :
        c \in UNION {[1..n -> {Str(<<65>>), Str(<<66>>), Str(<<>>), Null}] : n \in 0..MaxStrings}
              \cup {TenStrings(u) : u \in 1..10}}

\* every column of up to MaxEnum of the values "A", "B" and "C", and the
\* column of the seventeen values "A" to "Q"
EnumColumns ==
    {Column(FT_ENUM, c) :
        c \in UNION {[1..n -> {Str(<<65>>), Str(<<66>>), Str(<<67>>)}] : n \in 0..MaxEnum}
              \cup {[i \in 1..17 |-> Str(<<64 + i>>)]}}

\* the flat objects of the array columns: {k:1}, {k:2}, {k:3}, {a:1},
\* {a:1, b:2} and {b:3}
FlatItems ==
    {Obj(<< <<(<<107>>), Num(n)>> >>) : n \in 1..3}
        \cup {Obj(<< <<(<<97>>), Num(1)>> >>),
              Obj(<< <<(<<97>>), Num(1)>>, <<(<<98>>), Num(2)>> >>),
              Obj(<< <<(<<98>>), Num(3)>> >>)}

\* every column of 1 to MaxArrayRows arrays of up to MaxItems of these objects
ArrayObjectColumns ==
    {Column(FT_ARRAY, c) :
        c \in UNION {[1..n -> {Arr(a) : a \in UNION {[1..m -> FlatItems] : m \in 0..MaxItems}}] :
                        n \in 1..MaxArrayRows}}

CodecColumns ==
    BooleanColumns \cup UuidColumns \cup TimestampColumns \cup NumberColumns
        \cup StringColumns \cup EnumColumns \cup ArrayObjectColumns

\* the mode bytes put on the wire: the modes 00, 01, 02 and two bytes that
\* are no mode
WireModes == {0, 1, 2, 3, 255}

\* NumberCodec payloads: a mode byte followed by nothing, by one or two small
\* bytes, or by the eight bytes of the double 1.0
NumberPayloads ==
    {Payload(FT_NUMBER, <<m>> \o b) :
        m \in WireModes,
        b \in {<<>>, <<2>>, <<2, 4>>, <<0, 0, 0, 0, 0, 0, 240, 63>>}}

\* AdaptiveStringCodec payloads: a mode byte followed by up to MaxBody bytes
\* of 0, 1, 2 and 65 ("A")
StringPayloads ==
    {Payload(FT_STRING, <<m>> \o b) :
        m \in WireModes, b \in UNION {[1..n -> {0, 1, 2, 65}] : n \in 0..MaxBody}}

\* the count n and a dictionary of the two entries "A" and "B", followed by
\* ceil(n/2) bytes of nibbles
EnumNibblePayloads ==
    {Payload(FT_ENUM, <<n, 0, 0, 0, 2, 1, 65, 1, 66>> \o p) :
        n \in 1..3, p \in UNION {[1..m -> {0, 1, 2, 16, 18, 32, 240}] : m \in 1..2}}

\* the count n and a dictionary of the seventeen entries "A" to "Q",
\* followed by n bytes of indices
EnumBytePayloads ==
    {Payload(FT_ENUM, <<n, 0, 0, 0, 17>> \o Flat([i \in 1..17 |-> <<1, 64 + i>>]) \o p) :
        n \in 1..2, p \in UNION {[1..m -> {0, 16, 17, 200}] : m \in 1..2}}

\* the inner blocks of the array payloads: none, or the type NUMBER, the
\* length of the data and the data of an integer column of 0 to 3 values
InnerBlocks ==
    {<<>>, <<1, 1, 1>>, <<1, 2, 1, 2>>, <<1, 3, 1, 2, 4>>, <<1, 4, 1, 2, 4, 6>>}

\* ArrayPrimitiveCodec payloads: a row count of 1 to MaxArrayRows, as many
\* row lengths of 0 to 2, and an inner block
ArrayPrimitivePayloads ==
    UNION {{Payload(FT_ARRAY_PRIMITIVE, <<n>> \o lengths \o block) :
               lengths \in [1..n -> 0..2], block \in InnerBlocks} :
           n \in 1..MaxArrayRows}

CodecPayloads ==
    BooleanPayloads \cup NumberPayloads \cup StringPayloads
        \cup EnumNibblePayloads \cup EnumBytePayloads
        \cup ArrayPrimitivePayloads

CodecInit ==
    /\ pc = "start"
    /\ input \in CodecColumns \cup CodecPayloads
    /\ buffer = <<>>
    /\ output = [ok |-> TRUE, values |-> <<>>]

\* codec.encode(values)
EncodeValues ==
    /\ pc = "start"
    /\ input.from = "column"
    /\ \E r \in {CodecEncode(input.codec, input.values)} :
          /\ pc' = IF r.ok THEN "encoded" ELSE "rejected"
          /\ buffer' = IF r.ok THEN r.bytes ELSE <<>>
          /\ output' = IF r.ok THEN output ELSE r
    /\ UNCHANGED input

\* a payload that no encode of this run produced reaches the codec
ReceivePayload ==
    /\ pc = "start"
    /\ input.from = "wire"
    /\ buffer' = input.bytes
    /\ pc' = "encoded"
    /\ UNCHANGED <<input, output>>

\* codec.decode(buffer)
DecodePayload ==
    /\ pc = "encoded"
    /\ output' = CodecDecode(input.codec, buffer)
    /\ pc' = "decoded"
    /\ UNCHANGED <<input, buffer>>

CodecNext == EncodeValues \/ ReceivePayload \/ DecodePayload

SpecCodec == CodecInit /\ [][CodecNext]_vars

\* buf is a one-byte count n followed by exactly ceil(n/8) bytes in which bit
\* (i mod 8) of byte floor(i/8) is set iff values[i] is true, the bits at
\* positions >= n being zero
IsBooleanLayout(values, buf) ==
    LET n == Len(values)
    IN /\ Len(buf) = 1 + ((n + 7) \div 8)
       /\ buf[1] = n
       /\ \A i \in 0..(8 * ((n + 7) \div 8) - 1) :
             ((buf[2 + (i \div 8)] \div (2 ^ (i % 8))) % 2 = 1)
                <=> (i < n /\ values[i + 1] = Bool(TRUE))

\* T,F,T,T,F,F,T,F,T
NineBooleans ==
    <<Bool(TRUE), Bool(FALSE), Bool(TRUE), Bool(TRUE), Bool(FALSE), Bool(FALSE),
      Bool(TRUE), Bool(FALSE), Bool(TRUE)>>

\* the booleans a payload <<n>> \o bytes holds at its first n bit positions
BitsOfPayload(buf) ==
    [i \in 1..buf[1] |-> Bool((buf[2 + ((i - 1) \div 8)] \div (2 ^ ((i - 1) % 8))) % 2 = 1)]

\* C12 as stated: for every sequence of n >= 0 booleans, BooleanCodec.encode
\* returns Varint(n) followed by exactly ceil(n/8) bytes, bit (i mod 8) of
\* byte floor(i/8) set iff values[i] is true and the bits at positions >= n
\* zero (T,F,T,T,F,F,T,F,T gives 09 4D 01), and decode returns exactly those n
\* booleans, ignoring the trailing bits.
C12_BooleanLayoutAnyCount ==
    (input.codec = FT_BOOLEAN) =>
        /\ (pc \in {"encoded", "decoded"} /\ input.from = "column") =>
               IsBooleanLayout(input.values, buffer)
        /\ (pc = "decoded" /\ input.from = "column") =>
               (output.ok /\ output.values = input.values)

\* C12, amended: for every sequence of n >= 1 booleans, BooleanCodec.encode
\* returns Varint(n) followed by exactly ceil(n/8) bytes, bit (i mod 8) of byte
\* floor(i/8) set iff values[i] is true and the bits at positions >= n zero
\* (T,F,T,T,F,F,T,F,T gives 09 4D 01); for n = 0 it returns the empty buffer;
\* decode returns exactly the n booleans for every n >= 0, and ignores the
\* bits at positions >= n of a payload in which they are set.
C12_BooleanLayout ==
    (input.codec = FT_BOOLEAN) =>
        /\ (pc \in {"encoded", "decoded"} /\ input.from = "column") =>
               /\ IF Len(input.values) = 0 THEN buffer = <<>>
                  ELSE IsBooleanLayout(input.values, buffer)
               /\ input.values = NineBooleans => buffer = <<9, 77, 1>>
        /\ (pc = "decoded" /\ input.from = "column") =>
               (output.ok /\ output.values = input.values)
        /\ (pc = "decoded" /\ input.from = "wire") =>
               (output.ok /\ output.values = BitsOfPayload(buffer))

\* the nine booleans of the example have been encoded and decoded
C12_Witness ==
    /\ pc = "decoded"
    /\ input = Column(FT_BOOLEAN, NineBooleans)
    /\ buffer = <<9, 77, 1>>
    /\ output.ok /\ output.values = NineBooleans

\* C13: UUIDCodec.decode(UUIDCodec.encode(U)) equals U for every sequence U of
\* hyphenated 36-character UUID strings that the profiler's case-insensitive
\* rule accepts, upper-case and lower-case hex digits alike, each value being
\* stored as exactly 16 bytes.
C13_UuidRoundTrip ==
    (input.codec = FT_UUID /\ input.from = "column" /\ isUUID(input.values)) =>
        /\ pc \in {"encoded", "decoded"} => Len(buffer) = 16 * Len(input.values)
        /\ pc = "decoded" => (output.ok /\ output.values = input.values)

\* C14: TimestampCodec is delta-correct. For a column T of timestamps in any
\* order, encode emits the epoch milliseconds of T[0] as an 8-byte
\* little-endian signed base, then one ZigZag varint of (t_i - base) for every
\* index i, index 0 included (a single 00 byte), and decode(encode(T))[i]
\* denotes the same epoch millisecond as T[i] for every i.
C14_TimestampDeltaCorrect ==
    (input.codec = FT_TIMESTAMP /\ input.from = "column" /\ Len(input.values) >= 1) =>
        LET T == [i \in 1..Len(input.values) |-> DateGetTime(input.values[i]).ms]
        IN /\ pc \in {"encoded", "decoded"} =>
                /\ buffer = I64LE(T[1])
                               \o Flat([i \in 1..Len(T) |-> Varint_encodeBigInt(WSub(T[i], T[1]))])
                /\ buffer[9] = 0
           /\ pc = "decoded" =>
                /\ output.ok
                /\ Len(output.values) = Len(T)
                /\ \A i \in 1..Len(T) : DateGetTime(output.values[i]).ms = T[i]

\* C15: for a column of n timestamps, TimestampCodec.encode returns exactly
\* 8 + 8 * n bytes: 8 bytes for the base plus 8 bytes per delta.  (Stated for
\* n >= 1; the empty column, encoded as the empty buffer, is left aside.)
C15_TimestampLength ==
    (input.codec = FT_TIMESTAMP /\ input.from = "column" /\ pc \in {"encoded", "decoded"}
        /\ Len(input.values) >= 1) =>
        Len(buffer) = 8 + 8 * Len(input.values)

\* the ZigZag varint of a small integer n: the LEB128 bytes of 2n for n >= 0
\* and of -2n - 1 for n < 0
SmallZigZagBytes(n) ==
    LET z == IF n >= 0 THEN 2 * n ELSE -2 * n - 1
    IN IF z < 128 THEN <<z>> ELSE <<128 + (z % 128), z \div 128>>

\* C16 as stated: NumberCodec.encode selects integer mode (first byte 01) if
\* and only if every value is an integer, and for the input [1, 2, 3] the
\* output is the mode byte 01 followed by exactly the three body bytes 01 02 03.
C16_IntegerModePlainBytes ==
    (input.codec = FT_NUMBER /\ input.from = "column" /\ pc \in {"encoded", "decoded"}
        /\ Len(input.values) >= 1) =>
        /\ (buffer[1] = 1) <=> (\A i \in 1..Len(input.values) : input.values[i].k = "num")
        /\ input.values = <<Num(1), Num(2), Num(3)>> => buffer = <<1, 1, 2, 3>>

\* C16, amended: for a column that is not empty, NumberCodec.encode selects
\* integer mode (first byte 01) if and only if every value is an integer, and
\* the body is then one ZigZag varint per value in order; for the input
\* [1, 2, 3] the output is the mode byte 01 followed by exactly the three body
\* bytes 02 04 06.
C16_IntegerModeZigZag ==
    (input.codec = FT_NUMBER /\ input.from = "column" /\ pc \in {"encoded", "decoded"}
        /\ Len(input.values) >= 1) =>
        /\ (buffer[1] = 1) <=> (\A i \in 1..Len(input.values) : input.values[i].k = "num")
        /\ (\A i \in 1..Len(input.values) : input.values[i].k = "num") =>
              buffer = <<1>> \o Flat([i \in 1..Len(input.values) |->
                                         SmallZigZagBytes(input.values[i].v)])
        /\ input.values = <<Num(1), Num(2), Num(3)>> => buffer = <<1, 2, 4, 6>>

\* the column [1, 2, 3] has been encoded in integer mode
C16_Witness ==
    /\ pc = "encoded"
    /\ input = Column(FT_NUMBER, <<Num(1), Num(2), Num(3)>>)
    /\ buffer = <<1, 2, 4, 6>>

\* C17: decoding a payload of an adaptive codec (NumberCodec,
\* AdaptiveStringCodec) whose mode byte is none of 00, 01, 02 fails with an
\* unknown-mode error and returns no values.
C17_UnknownModeFails ==
    (pc = "decoded" /\ input.from = "wire" /\ input.codec \in {FT_NUMBER, FT_STRING}
        /\ buffer[1] \notin {0, 1, 2}) =>
        /\ ~output.ok
        /\ output.err \in {"Unknown NumberCodec mode", "Unknown AdaptiveStringCodec mode"}

\* the number of distinct values of a column
UniqueCount(values) == Cardinality({values[i] : i \in 1..Len(values)})

\* the number of maximal runs of equal adjacent values
RunCount(values) ==
    1 + Cardinality({i \in 2..Len(values) : values[i] # values[i - 1]})

\* the first byte a dictionary encoding of the column begins with: 02 when
\* the RLE index stream (two one-byte varints per run) is smaller than the
\* standard one (one one-byte varint per value), 01 otherwise, so on a tie
DictionaryMode(values) == IF 2 * RunCount(values) < Len(values) THEN 2 ELSE 1

\* C18 as stated: if more than 70% of the values of a column are unique the
\* output of AdaptiveStringCodec.encode begins with 00; otherwise, exactly
\* 70% included, it begins with 01 or 02, whichever index stream is smaller,
\* 01 on a tie.
C18_DictionaryAtSeventyPercent ==
    (input.codec = FT_STRING /\ input.from = "column" /\ pc \in {"encoded", "decoded"}
        /\ Len(input.values) >= 1) =>
        buffer[1] = IF 10 * UniqueCount(input.values) > 7 * Len(input.values)
                    THEN 0 ELSE DictionaryMode(input.values)

\* C18, amended: if at least 70% of the values of a column that is not empty
\* are unique (exactly 70% included) the output begins with 00; if less than
\* 70% are unique it begins with 01 or 02, whichever index stream is
\* smaller, 01 on a tie.
C18_RawAtSeventyPercent ==
    (input.codec = FT_STRING /\ input.from = "column" /\ pc \in {"encoded", "decoded"}
        /\ Len(input.values) >= 1) =>
        buffer[1] = IF 10 * UniqueCount(input.values) >= 7 * Len(input.values)
                    THEN 0 ELSE DictionaryMode(input.values)

\* a column of ten strings, seven of them unique, has been encoded raw
C18_Witness ==
    /\ pc = "encoded"
    /\ input = Column(FT_STRING, TenStrings(7))
    /\ buffer[1] = 0

\* EnumCodec.decode reads from buf, whose dictionary is complete, an index
\* that is no smaller than uniqueCount: one of the first count bytes of the
\* byte-per-index layout when count bytes are there, or a nibble at a
\* position below count of the nibble-packed layout
EnumReadsBadIndex(buf) ==
    /\ Len(buf) >= 5
    /\ ReadU32LE(buf, 0) > 0
    /\ LET count == ReadU32LE(buf, 0)
           uniqueCount == buf[5]
           d == EnumReadDict(buf, 5, uniqueCount, <<>>)
       IN /\ d.ok
          /\ LET rest == Slice(buf, d.offset, Len(buf))
                 Nibble(i) == IF i % 2 = 0 THEN rest[(i \div 2) + 1] \div 16
                              ELSE rest[(i \div 2) + 1] % 16
             IN IF uniqueCount > 16
                THEN /\ Len(rest) >= count
                     /\ \E i \in 1..count : rest[i] >= uniqueCount
                ELSE \E i \in 0..(count - 1) :
                        i < 2 * Len(rest) /\ Nibble(i) >= uniqueCount

\* the index loop of a dictionary mode, from offset on, reads an index that
\* is no smaller than the dictionary size
RECURSIVE ReadsBadIndexFrom(_, _, _, _)
ReadsBadIndexFrom(buf, offset, size, rle) ==
    IF offset >= Len(buf) THEN FALSE
    ELSE LET r == Varint_decode(buf, offset)
         IN IF ~r.ok THEN FALSE
            ELSE IF WideToInt(r.value) >= size THEN TRUE
            ELSE IF ~rle THEN ReadsBadIndexFrom(buf, offset + r.bytesRead, size, rle)
            ELSE LET n == Varint_decode(buf, offset + r.bytesRead)
                 IN IF ~n.ok THEN FALSE
                    ELSE ReadsBadIndexFrom(buf, offset + r.bytesRead + n.bytesRead,
                                           size, rle)

\* AdaptiveStringCodec.decode reads from buf, a payload of a dictionary mode
\* whose dictionary is complete, an index that is no smaller than the
\* dictionary size
StringReadsBadIndex(buf) ==
    /\ Len(buf) >= 1
    /\ buf[1] \in {1, 2}
    /\ LET ds == Varint_decode(buf, 1)
       IN /\ ds.ok
          /\ LET d == ReadLenPrefixed(buf, 1 + ds.bytesRead, WideToInt(ds.value), <<>>)
             IN /\ d.ok
                /\ ReadsBadIndexFrom(buf, d.offset, WideToInt(ds.value), buf[1] = 2)

\* C19: decoding fails with an index-out-of-range error, and returns no
\* values, whenever an index read from the payload is greater than or equal
\* to the dictionary length, in EnumCodec.decode (nibble-packed and
\* byte-per-index layouts) and in AdaptiveStringCodec.decode (standard and
\* RLE dictionary modes).
C19_IndexOutOfRangeFails ==
    (pc = "decoded" /\ input.from = "wire"
        /\ \/ input.codec = FT_ENUM /\ EnumReadsBadIndex(buffer)
           \/ input.codec = FT_STRING /\ StringReadsBadIndex(buffer)) =>
        /\ ~output.ok
        /\ output.err = "Invalid dictionary index"

\* the dictionary index of values[i]: the number of distinct values that
\* occur before the first occurrence of values[i]
DictionaryIndex(values, i) ==
    LET first == CHOOSE j \in 1..i :
                    values[j] = values[i] /\ \A k \in 1..(j - 1) : values[k] # values[i]
    IN Cardinality({values[k] : k \in 1..(first - 1)})

\* the bytes of an encoded enum column that follow the count, uniqueCount
\* and the dictionary entries (each a length byte and its characters)
AfterEnumHeader(values, buf) ==
    LET unique == {values[i] : i \in 1..Len(values)}
        header == 5 + Cardinality(unique)
                    + Cardinality({<<x, c>> \in unique \X (1..MaxCol) : c <= Len(x.v)})
    IN SubSeq(buf, header + 1, Len(buf))

\* the indices of a column two per byte, the first of each pair in the high
\* nibble, the low nibble of a last byte without a second index being zero
HighNibbleFirst(values) ==
    [j \in 1..((Len(values) + 1) \div 2) |->
        16 * DictionaryIndex(values, 2 * j - 1)
          + (IF 2 * j <= Len(values) THEN DictionaryIndex(values, 2 * j) ELSE 0)]

ABACB == <<Str(<<65>>), Str(<<66>>), Str(<<65>>), Str(<<67>>), Str(<<66>>)>>

\* C20 as stated: EnumCodec.encode packs the dictionary indices two per
\* byte, high nibble first, when uniqueCount <= 16, and for the input
\* ["A","B","A","C","B"] (indices 0,1,0,2,1) the bytes after the count,
\* uniqueCount and dictionary entries are exactly 01 20.
C20_NibblePackingTwoBytes ==
    (input.codec = FT_ENUM /\ input.from = "column" /\ pc \in {"encoded", "decoded"}
        /\ Len(input.values) >= 1 /\ UniqueCount(input.values) <= 16) =>
        /\ AfterEnumHeader(input.values, buffer) = HighNibbleFirst(input.values)
        /\ input.values = ABACB => AfterEnumHeader(input.values, buffer) = <<1, 32>>

\* C20, amended: EnumCodec.encode packs the dictionary indices two per byte,
\* high nibble first, when uniqueCount <= 16, and for the input
\* ["A","B","A","C","B"] (indices 0,1,0,2,1) the bytes after the count,
\* uniqueCount and dictionary entries are exactly 01 02 10.
C20_NibblePackingThreeBytes ==
    (input.codec = FT_ENUM /\ input.from = "column" /\ pc \in {"encoded", "decoded"}
        /\ Len(input.values) >= 1 /\ UniqueCount(input.values) <= 16) =>
        /\ AfterEnumHeader(input.values, buffer) = HighNibbleFirst(input.values)
        /\ input.values = ABACB => AfterEnumHeader(input.values, buffer) = <<1, 2, 16>>

\* the column ["A","B","A","C","B"] has been encoded: count 5, uniqueCount
\* 3, the entries "A", "B", "C" and the packed indices 01 02 10
C20_Witness ==
    /\ pc = "encoded"
    /\ input = Column(FT_ENUM, ABACB)
    /\ buffer = <<5, 0, 0, 0, 3, 1, 65, 1, 66, 1, 67, 1, 2, 16>>

(***************************************************************************)
(* Specification of the profiler: a column reaches FieldProfiler and is    *)
(* given its type.                                                         *)
(***************************************************************************)
\* the longest of the exhaustively enumerated columns
MaxProfiled == 3

\* the values of the profiled columns: null, undefined, three UUIDs, a
\* timestamp, the strings "A" and "B", a boolean, an integer, 1.5, the empty
\* array, arrays of a number, of an empty object and of null, and an object
ProfileValues ==
    {Null, Undef, Bool(TRUE), Num(1), Dec(15, 1), Str(<<65>>), Str(<<66>>),
     Str(EpochHourPrefix \o <<48, 48, 58, 48, 49, 46, 53, 48, 48, 90>>),
     Arr(<<>>), Arr(<<Num(1)>>), Arr(<<Obj(<<>>)>>), Arr(<<Null>>), Obj(<<>>)}
        \cup {Str(u) : u \in UuidStrings}

\* the column of the n strings "A", "B", ...
DistinctStrings(n) == [i \in 1..n |-> Str(<<64 + i>>)]

\* every column of up to MaxProfiled of these values, and the columns of
\* eight and of nine distinct strings
ProfileColumns ==
    UNION {[1..n -> ProfileValues] : n \in 0..MaxProfiled}
        \cup {DistinctStrings(8), DistinctStrings(9)}

ProfileInit ==
    /\ pc = "start"
    /\ input \in ProfileColumns
    /\ buffer = <<>>
    /\ output = [ok |-> TRUE, type |-> FT_STRING]

\* profiler.detectType(values)
DetectType ==
    /\ pc = "start"
    /\ output' = [ok |-> TRUE, type |-> detectType(input)]
    /\ pc' = "profiled"
    /\ UNCHANGED <<input, buffer>>

ProfileNext == DetectType

SpecProfile == ProfileInit /\ [][ProfileNext]_vars

\* the entries of a column that are neither null nor undefined
WithoutNulls(values) == SelectSeq(values, LAMBDA x : x.k \notin {"null", "undefined"})

\* the rules of the profiler, each on the entries it is asked about
AllUuids(vs) == \A i \in 1..Len(vs) : vs[i].k = "str" /\ MatchesUuidRegex(vs[i].v)
AllTimestamps(vs) == \A i \in 1..Len(vs) : vs[i].k = "str" /\ DateParses(vs[i].v)
FewStrings(vs) ==
    /\ \A i \in 1..Len(vs) : vs[i].k = "str"
    /\ Cardinality({vs[i] : i \in 1..Len(vs)}) <= 8
AllBooleans(vs) == \A i \in 1..Len(vs) : vs[i].k = "bool"
AllNumbers(vs) == \A i \in 1..Len(vs) : vs[i].k \in {"num", "dec", "f64"}
AllArraysOfObjects(vs) ==
    \A i \in 1..Len(vs) : vs[i].k = "arr" /\ \A j \in 1..Len(vs[i].v) : vs[i].v[j].k = "obj"
AllArraysOfPrimitives(vs) ==
    \A i \in 1..Len(vs) :
        vs[i].k = "arr" /\ \A j \in 1..Len(vs[i].v) : vs[i].v[j].k \notin {"arr", "obj"}

\* the rules a column matches, in the order of the profiler: the scalar
\* rules are asked about the entries that are not null, the array rules about
\* the entries of the column
RulesMatched(values) ==
    LET vs == WithoutNulls(values)
    IN << <<FT_UUID, vs # <<>> /\ AllUuids(vs)>>,
          <<FT_TIMESTAMP, vs # <<>> /\ AllTimestamps(vs)>>,
          <<FT_ENUM, vs # <<>> /\ FewStrings(vs)>>,
          <<FT_BOOLEAN, vs # <<>> /\ AllBooleans(vs)>>,
          <<FT_NUMBER, vs # <<>> /\ AllNumbers(vs)>>,
          <<FT_ARRAY, vs # <<>> /\ AllArraysOfObjects(values)>>,
          <<FT_ARRAY_PRIMITIVE, vs # <<>> /\ AllArraysOfPrimitives(values)>>,
          <<FT_STRING, TRUE>> >>

\* C21: FieldProfiler.detectType returns the tag of the first matching rule
\* in the order UUID, TIMESTAMP, ENUM (all strings, at most 8 distinct),
\* BOOLEAN, NUMBER, ARRAY, ARRAY_PRIMITIVE, otherwise STRING; a column of at
\* most 8 distinct UUID strings is UUID and not ENUM, a column of 9 distinct
\* plain strings is STRING, and an empty or all-null column is STRING.
C21_FirstMatchingRule ==
    pc = "profiled" =>
        LET rules == RulesMatched(input)
            first == CHOOSE r \in 1..Len(rules) :
                        rules[r][2] /\ \A q \in 1..(r - 1) : ~rules[q][2]
        IN /\ output.type = rules[first][1]
           /\ (input # <<>> /\ AllUuids(input)) => output.type = FT_UUID
           /\ input = DistinctStrings(9) => output.type = FT_STRING
           /\ (\A i \in 1..Len(input) : input[i] = Null) => output.type = FT_STRING

\* a column of two distinct UUID strings, which are also at most 8 distinct
\* strings, has been profiled UUID
C21_Witness ==
    /\ pc = "profiled"
    /\ Len(input) = 2
    /\ input[1] # input[2]
    /\ AllUuids(input)
    /\ FewStrings(input)
    /\ output.type = FT_UUID

(***************************************************************************)
(* Specification of the registry: codecs are registered one call after     *)
(* another, and the registry is asked for a codec or whether it supports a *)
(* type.  `input` holds the register calls made so far and `buffer` the    *)
(* Map `codecs`, a function from its keys to the codecs.                   *)
(***************************************************************************)
\* the most register calls of a run
MaxRegister == 3
\* the types the calls name: the first MaxTypes members of FieldType
MaxTypes == 2

\* the codec objects handed to register
CodecObjects == {"codecA", "codecB"}

\* the types of the calls: a member of FieldType (a number, the declared
\* parameter type) or the name of one ("STRING" as any)
TypeArguments ==
    {TypeNum(n) : n \in 0..(MaxTypes - 1)}
        \cup {[k |-> "name", code |-> n] : n \in 0..(MaxTypes - 1)}

\* this.codecs.set(type, codec) on the Map codecs
MapSet(codecs, key, value) ==
    [x \in DOMAIN codecs \cup {key} |-> IF x = key THEN value ELSE codecs[x]]

\* CodecRegistry.register(codec, primaryType): the Map after the call
CodecRegistry_register(codecs, codec, primaryType) ==
    MapSet(codecs, NamedFieldTypes(primaryType), codec)

\* CodecRegistry.get(type): codecs.get(type) ?? codecs.get(NamedFieldTypes[type])
CodecRegistry_get(codecs, type) ==
    IF type \in DOMAIN codecs THEN [ok |-> TRUE, codec |-> codecs[type]]
    ELSE IF NamedFieldTypes(type) \in DOMAIN codecs
         THEN [ok |-> TRUE, codec |-> codecs[NamedFieldTypes(type)]]
         ELSE Throw("No codec registered for field type")

\* CodecRegistry.supports(type): codecs.has(type)
CodecRegistry_supports(codecs, type) == type \in DOMAIN codecs

RegistryInit ==
    /\ pc = "registry"
    /\ input = <<>>
    /\ buffer = <<>>
    /\ output = [op |-> "new"]

\* registry.register(codec, primaryType)
Register ==
    /\ pc = "registry"
    /\ Len(input) < MaxRegister
    /\ \E codec \in CodecObjects, primaryType \in TypeArguments :
          /\ buffer' = CodecRegistry_register(buffer, codec, primaryType)
          /\ input' = Append(input, [codec |-> codec, type |-> primaryType])
    /\ output' = [op |-> "register"]
    /\ UNCHANGED pc

\* registry.get(type)
RegistryGet ==
    /\ pc = "registry"
    /\ \E type \in TypeArguments :
          output' = [op |-> "get", type |-> type, result |-> CodecRegistry_get(buffer, type)]
    /\ UNCHANGED <<pc, input, buffer>>

\* registry.supports(type)
RegistrySupports ==
    /\ pc = "registry"
    /\ \E type \in TypeArguments :
          output' = [op |-> "supports", type |-> type,
                     supported |-> CodecRegistry_supports(buffer, type)]
    /\ UNCHANGED <<pc, input, buffer>>

RegistryNext == Register \/ RegistryGet \/ RegistrySupports

SpecRegistry == RegistryInit /\ [][RegistryNext]_vars

\* the register calls made for the member t of FieldType, by its number or
\* by its name
CallsFor(calls, t) == {i \in 1..Len(calls) : calls[i].type.code = t}

\* the codec of the last of the calls made for t
LastRegistered(calls, t) ==
    calls[CHOOSE i \in CallsFor(calls, t) : \A j \in CallsFor(calls, t) : j <= i].codec

\* C22: after any sequence of register calls, get(t) returns the codec most
\* recently registered for type t, get(t) fails with a no-codec error if and
\* only if no codec was ever registered for t, supports(t) is true exactly
\* when get(t) succeeds, and registering for one type never changes the
\* codec of another type.
C22_RegistryLookup ==
    pc = "registry" =>
        \A t \in 0..(MaxTypes - 1) :
            LET got == CodecRegistry_get(buffer, TypeNum(t))
            IN /\ CallsFor(input, t) # {} =>
                     got.ok /\ got.codec = LastRegistered(input, t)
               /\ CallsFor(input, t) = {} <=>
                     (~got.ok /\ got.err = "No codec registered for field type")
               /\ CodecRegistry_supports(buffer, TypeNum(t)) <=> got.ok

\* the row lengths an ArrayPrimitiveCodec payload records: the varints after
\* the row count (all below 128 in the payloads of the model)
RecordedLengths(buf) == SubSeq(buf, 2, 1 + buf[1])

\* the flat output of the inner codec for the payload: the values its inner
\* block decodes to, none when the block is absent
InnerFlatOutput(buf) ==
    IF Len(buf) <= 1 + buf[1] THEN <<>>
    ELSE NumberCodec_decode(SubSeq(buf, 4 + buf[1], Len(buf))).values

\* C23: ArrayPrimitiveCodec.decode either fails or returns one array per
\* recorded row length, row i with exactly len_i elements, the rows
\* concatenated in order being the inner codec's flat output; it fails
\* whenever the flat output length differs from the sum of the recorded row
\* lengths, also when the inner block is absent although a recorded length
\* is not zero.
C23_RowsMatchLengths ==
    (pc = "decoded" /\ input.from = "wire" /\ input.codec = FT_ARRAY_PRIMITIVE) =>
        LET lengths == RecordedLengths(buffer)
            flat == InnerFlatOutput(buffer)
        IN /\ output.ok =>
                 /\ Len(output.values) = Len(lengths)
                 /\ \A i \in 1..Len(lengths) : Len(output.values[i].v) = lengths[i]
                 /\ Flat([i \in 1..Len(lengths) |-> output.values[i].v]) = flat
           /\ Len(flat) # SumSeq(lengths) => ~output.ok

\* C24: ArrayObjectCodec.decode(ArrayObjectCodec.encode(X)) equals X for
\* every column X of arrays of flat objects: the row lengths are kept, and
\* when the objects have different key sets an object that lacks a field
\* decodes without it while every other object keeps its own value (no
\* value moves to a different object).
C24_ArrayObjectRoundTrip ==
    (input.codec = FT_ARRAY /\ input.from = "column") =>
        /\ pc # "rejected"
        /\ pc = "decoded" =>
              /\ output.ok
              /\ Len(output.values) = Len(input.values)
              /\ \A i \in 1..Len(input.values) :
                    Len(output.values[i].v) = Len(input.values[i].v)
              /\ SeqStructEq(output.values, input.values)


(***************************************************************************)
(* Specification of the flattener: a record is flattened and the flat map  *)
(* is unflattened.                                                         *)
(***************************************************************************)
\* the values of a record of FlattenRecords: null, a number, a string,
\* arrays, the MISSING the compressor stores for an absent key, and objects
\* over the key "c", nested to depth two, the empty object among them
FlattenValues ==
    LET KeyC == <<99>>
        leaves == {Null, Num(1), Str(<<120>>), Arr(<<>>), Arr(<<Num(1)>>), Missing,
                   Obj(<<>>)}
    IN leaves \cup {Obj(<< <<KeyC, l>> >>) : l \in leaves}
              \cup {Obj(<< <<KeyC, Obj(<< <<KeyC, Num(1)>> >>)>> >>)}

\* the records: no key, the key "a", or the keys "a" and "b"
FlattenRecords ==
    {Obj(<<>>)}
      \cup {Obj(<< <<(<<97>>), v>> >>) : v \in FlattenValues}
      \cup {Obj(<< <<(<<97>>), v>>, <<(<<98>>), w>> >>) : v \in FlattenValues, w \in FlattenValues}

FlattenInit ==
    /\ pc = "record"
    /\ input \in FlattenRecords
    /\ buffer = Obj(<<>>)
    /\ output = [ok |-> TRUE, val |-> Obj(<<>>)]

\* flattener.flatten(record)
Flatten ==
    /\ pc = "record"
    /\ buffer' = flatten(input)
    /\ pc' = "flat"
    /\ UNCHANGED <<input, output>>

\* flattener.unflatten(flat)
Unflatten ==
    /\ pc = "flat"
    /\ \E r \in {unflatten(buffer)} :
          /\ output' = r
          /\ pc' = IF r.ok THEN "unflattened" ELSE "failed"
    /\ UNCHANGED <<input, buffer>>

FlattenNext == Flatten \/ Unflatten

SpecFlatten == FlattenInit /\ [][FlattenNext]_vars

\* x holds MISSING at some depth
RECURSIVE HoldsMissing(_)
HoldsMissing(x) ==
    \/ x.k = "missing"
    \/ /\ x.k = "obj"
       /\ \E i \in 1..Len(x.v) : HoldsMissing(x.v[i][2])

\* x holds an empty object below its top level
RECURSIVE HoldsEmptyObject(_)
HoldsEmptyObject(x) ==
    /\ x.k = "obj"
    /\ \E i \in 1..Len(x.v) : \/ x.v[i][2] = Obj(<<>>)
                              \/ HoldsEmptyObject(x.v[i][2])

\* the value found in x along parts[i..], undefined when a key is absent
RECURSIVE GetPath(_, _, _)
GetPath(x, parts, i) ==
    IF i > Len(parts) THEN x
    ELSE IF x.k = "obj" /\ ObjHas(x, parts[i])
         THEN GetPath(ObjGet(x, parts[i]), parts, i + 1)
         ELSE Undef

\* C25: unflatten(flatten(r)) equals r for every record r of nested plain
\* objects with null leaves, array leaves and empty nested objects, and
\* unflatten omits every key whose value is MISSING and keeps every key
\* whose value is null.
C25_FlattenRoundTrip ==
    pc \in {"unflattened", "failed"} =>
       /\ output.ok
       /\ ~HoldsMissing(input) => StructEq(output.val, input)
       /\ \A i \in 1..Len(buffer.v) :
             LET found == GetPath(output.val, SplitDots(buffer.v[i][1]), 1)
             IN /\ buffer.v[i][2] = Missing => found = Undef
                /\ buffer.v[i][2] = Null => found = Null


(***************************************************************************)
(* Column order and column shape of a batch.                               *)
(***************************************************************************)
\* the field called name derives from the top-level key: it is the key, or
\* the key followed by '.' and a nested path
DerivesFrom(name, key) ==
    \/ name = key
    \/ /\ Len(name) > Len(key)
       /\ SubSeq(name, 1, Len(key) + 1) = key \o <<46>>

\* the top-level keys of the batch
TopLevelKeys(records) == Range(KeysInOrder(records, 1, <<>>))

\* the names of the header's fields are in ascending order of the
\* top-level keys they derive from: no field comes after a field of a
\* greater key
InTopLevelOrder(names, keys) ==
    \A i \in 1..Len(names) : \A j \in (i + 1)..Len(names) :
       \E ki \in keys : \E kj \in keys :
          /\ DerivesFrom(names[i], ki)
          /\ DerivesFrom(names[j], kj)
          /\ ~StrLess(kj, ki)

\* C26: in the header written by compress the fields appear in ascending
\* order of the top-level key they derive from, the columns of one
\* top-level key being contiguous, also when a nested key appears only in a
\* later record.
C26_ColumnOrderSorted ==
    (pc = "compressed" /\ ~IsBrotliBuffer) =>
        LET h == ParseFields(buffer, 7, ReadU16LE(buffer, 5), <<>>)
        IN /\ h.ok
           /\ InTopLevelOrder([i \in 1..Len(h.fields) |-> h.fields[i].name],
                              TopLevelKeys(input))


\* record i of the batch as the flattener sees it: MISSING under each
\* top-level key of the batch the record lacks, then flattened
SparseFlat(records, i) ==
    LET keys == SortKeys(TopLevelKeys(records))
    IN flatten(Obj([j \in 1..Len(keys) |->
                      <<keys[j], IF ObjHas(records[i], keys[j])
                                 THEN ObjGet(records[i], keys[j]) ELSE Missing>>]))

\* the flat keys of all records of the batch
FlatKeyUnion(records) ==
    UNION {Range(ObjKeys(SparseFlat(records, i))) : i \in 1..Len(records)}

\* C27: columns are rectangular.  After the prepare phase of compress there
\* is exactly one column per flattened dotted key of the union over the
\* records, every column is as long as the batch, and position i of column
\* k holds record i's value for k, or MISSING when record i has no such
\* key; after decompress every decoded column has the same length, the row
\* count used to rebuild the records.
C27_ColumnsRectangular ==
    (pc # "input" /\ input # <<>>) =>
        /\ LET columns == PreparedColumns(input)
           IN /\ Range(ObjKeys(columns)) = FlatKeyUnion(input)
              /\ Len(columns.v) = Cardinality(FlatKeyUnion(input))
              /\ \A c \in 1..Len(columns.v) :
                    /\ Len(columns.v[c][2].v) = Len(input)
                    /\ \A i \in 1..Len(input) :
                          columns.v[c][2].v[i] =
                             IF ObjHas(SparseFlat(input, i), columns.v[c][1])
                             THEN ObjGet(SparseFlat(input, i), columns.v[c][1])
                             ELSE Missing
        /\ pc = "decompressed" =>
              LET h == ParseFields(buffer, 7, ReadU16LE(buffer, 5), <<>>)
                  c == DecodeColumns(buffer, h.fields, h.offset, IsBrotliBuffer)
              IN h.fields # <<>> =>
                    /\ c.ok
                    /\ \A f \in 1..Len(h.fields) :
                          Len(ObjGet(c.columns, h.fields[f].name).v) = Len(output.records)

\* a batch of two records is decompressed, the nested key a.c of one record
\* being absent from the other, so that a column holds MISSING
C27_Witness ==
    /\ pc = "decompressed"
    /\ Len(input) = 2
    /\ Len(output.records) = 2
    /\ \E c \in 1..Len(PreparedColumns(input).v) :
          /\ PreparedColumns(input).v[c][1] = <<97, 46, 99>>
          /\ Missing \in Range(PreparedColumns(input).v[c][2].v)


(***************************************************************************)
(* The two containers.                                                     *)
(***************************************************************************)
\* the bytes of a buffer before its columns, the columns having the given
\* lengths
HeaderBytes(buf, columnLengths) == SubSeq(buf, 1, Len(buf) - SumSeq(columnLengths))

\* the position in the header of the first byte of entry i's byteLength,
\* the entries being written with the given names: 7 bytes of magic,
\* version and count, then per entry a length byte, the name, a type byte
\* and four bytes of byteLength
ByteLengthAt(names, i) ==
    7 + SumSeq([j \in 1..(i - 1) |-> Len(names[j]) + 6]) + Len(names[i]) + 3

\* the two headers have the same bytes except in the magic and in the
\* byteLengths, which are the lengths of the column buffers and of the
\* byte-compressed column buffers: so they list the same names and types
\* in the same order with the same version
HeadersAgree(hp, hb, names, columnBuffers) ==
    /\ Len(hp) = Len(hb)
    /\ Len(hp) = 7 + SumSeq([j \in 1..Len(names) |-> Len(names[j]) + 6])
    /\ SubSeq(hp, 1, 4) = MagicSAJC
    /\ SubSeq(hb, 1, 4) = MagicSJCB
    /\ \A i \in 1..Len(names) :
          /\ SubSeq(hp, ByteLengthAt(names, i), ByteLengthAt(names, i) + 3)
                = U32LE(Len(columnBuffers[i]))
          /\ SubSeq(hb, ByteLengthAt(names, i), ByteLengthAt(names, i) + 3)
                = U32LE(Len(brotliCompressSync(columnBuffers[i])))
    /\ \A k \in 5..Len(hp) :
          hp[k] # hb[k] =>
             \E i \in 1..Len(names) :
                k \in ByteLengthAt(names, i)..(ByteLengthAt(names, i) + 3)

\* decompress gives the same records from both buffers
SameRecords(fromPlain, fromBrotli) ==
    /\ fromPlain.ok = fromBrotli.ok
    /\ fromPlain.ok => fromPlain.records = fromBrotli.records

\* the buffer of compress and the outcome of compressColumnarBrotli on the
\* same batch are equivalent containers; p is what prepareData returns
Equivalent(plainBytes, brotli, p) ==
    /\ brotli.ok
    /\ HeadersAgree(HeaderBytes(plainBytes,
                                [i \in 1..Len(p.fields) |-> Len(p.columnBuffers[i])]),
                    HeaderBytes(brotli.bytes,
                                [i \in 1..Len(p.fields) |->
                                   Len(brotliCompressSync(p.columnBuffers[i]))]),
                    [i \in 1..Len(p.fields) |-> p.fields[i].name],
                    p.columnBuffers)
    /\ SameRecords(decompress(plainBytes), decompress(brotli.bytes))

\* C28: the two containers are equivalent.  For a batch on which compress
\* succeeds compressColumnarBrotli succeeds too, its output starts with
\* SJCB and compress's with SAJC, the two headers list the same field names
\* and types in the same order with the same version and differ only in
\* magic and byteLength, each byteLength being the length of the
\* byte-compressed column, and decompress returns the same records from
\* both buffers.
C28_ContainersEquivalent ==
    (pc = "compressed" /\ ~IsBrotliBuffer) =>
        Equivalent(buffer, compressColumnarBrotli(input), prepareData(input))

\* compress has returned the buffer of a batch of two records with two
\* columns, and decompress rebuilds two records from the other container
C28_Witness ==
    /\ pc = "compressed"
    /\ ~IsBrotliBuffer
    /\ Len(input) = 2
    /\ ReadU16LE(buffer, 5) = 2
    /\ compressColumnarBrotli(input).ok
    /\ decompress(compressColumnarBrotli(input).bytes).ok
    /\ Len(decompress(compressColumnarBrotli(input).bytes).records) = 2


C30_StringRoundTrip ==
    (input.codec = FT_STRING /\ input.from = "column") =>
        /\ pc # "rejected"
        /\ pc \in {"encoded", "decoded"} =>
              IF input.values = <<>> THEN buffer = <<>> ELSE buffer[1] \in {0, 1, 2}
        /\ pc = "decoded" =>
              /\ output.ok
              /\ Len(output.values) = Len(input.values)
              /\ output.values = input.values

\* a column of ten strings in two runs has gone through the RLE mode, or a
\* column holding null and the empty string through the raw mode or the
\* mode of one index per position
C30_Witness ==
    /\ pc = "decoded"
    /\ input.codec = FT_STRING
    /\ input.from = "column"
    /\ \/ input.values = TenStrings(2) /\ buffer[1] = 2
       \/ /\ Null \in Range(input.values)
          /\ Str(<<>>) \in Range(input.values)
          /\ buffer[1] \in {0, 1}

====
